---- MODULE Spec2Model ----
(***************************************************************************)
(* A model of the Sparkplug B session engine of sparkplug-cpp:             *)
(*   - EdgeNode (src/src/edge_node.cpp): connect, disconnect, the publish  *)
(*     operations, rebirth, and the MQTT callbacks, with the mutex and the *)
(*     calls into the transport as separate steps;                         *)
(*   - the MQTT transport and broker as seen through the Paho calls the    *)
(*     code makes: one connection, its Last Will, its subscriptions and    *)
(*     the messages placed on the wire;                                    *)
(*   - HostApplication (src/src/host_application.cpp): its API calls, its  *)
(*     MQTT callbacks and the sequence validator.                          *)
(* Optional values (protobuf has_xxx, std::optional) are sets with at most *)
(* one element: {} is "absent", {v} is "present with value v".             *)
(***************************************************************************)
EXTENDS Integers, Sequences, FiniteSets, TLC

\* ---------------------------------------------------------------- constants

SEQ_NUMBER_MAX == 256       \* edge_node.cpp:18
DataQos == 0                \* Config::data_qos default
DeathQos == 1               \* Config::death_qos default

\* ------------------------------------------------------------------- bounds

MaxOps == 5                 \* API calls made by the application
MaxFail == 1                \* transport failures injected while the link is up
MaxHostOps == 3             \* API calls made by the host application
MaxWrapOps == 260           \* API calls made by the application that publishes
                            \*   NDATA until seq has wrapped

Devices == {"d1"}
AppThreads == {"T1", "T2"}
CbThread == "CB"
PresetSeqs == {{}, {9}}     \* PayloadBuilder::has_seq() false / set by the caller

VARIABLES
  config_primary,       \* config_.primary_host_id.has_value()
  seq_num_,
  bd_seq_num_,
  is_connected_,
  primary_host_online_,
  last_birth_payload_,  \* {} (empty vector) or {payload}
  death_payload_data_,  \* {} or {bdSeq carried by the prepared NDEATH}
  device_states_,       \* device -> [known, is_online]
  client_,              \* 0: null handle; n > 0: the handle made by the n-th connect
  mutex_,               \* "free" or the thread holding EdgeNode::mutex_
  link,                 \* handle whose MQTT connection is up at the broker (0: none)
  will,                 \* {bdSeq} of the Last Will stored for that connection
  subs,                 \* topic filters subscribed on that connection
  lost_pending,         \* handle whose connection-lost callback is still to run
  wire,                 \* messages published, in wire order
  pc,                   \* thread -> position inside the API call it is running
  loc,                  \* thread -> locals of that call
  ret,                  \* thread -> result of its last completed call
  cb,                   \* what the MQTT callback thread is running
  ops,                  \* API calls made so far
  fails,                \* transport failures injected so far
  state_seen,           \* history: the last STATE literal handled, the
                        \*   handle it came in on if it said online, and
                        \*   whose STATE topic it was published on
  \* HostApplication
  host_config_,         \* [validate_sequence, log_callback, message_callback]
  host_mutex_,          \* "free" or the thread holding HostApplication::mutex_
  host_client_,         \* FALSE: null handle
  host_is_connected_,
  node_states_,         \* node -> {} (no entry) or {NodeState}
  host_link,            \* the host's MQTT connection is up at the broker
  host_subscribed,      \* a subscription is active on that connection
  host_lost_pending,    \* its connection-lost callback is still to run
  host_pc,              \* position of the application thread inside a host call
  host_ret,             \* result of its last completed host call
  host_ops,             \* host API calls made so far
  host_cb,              \* what the host's MQTT callback thread is running
  host_in,              \* the message that thread is handling
  host_log,             \* log() calls made for that message: [level, locked]
  \* Topic codec
  codec                 \* a Topic, the string to_string() made of it, and what
                        \*   parse() made of that string

edgeVars == <<config_primary, seq_num_, bd_seq_num_, is_connected_,
              primary_host_online_, last_birth_payload_, death_payload_data_,
              device_states_, client_, mutex_, link, will, subs, lost_pending,
              wire, pc, loc, ret, cb, ops, fails, state_seen>>

hostVars == <<host_config_, host_mutex_, host_client_, host_is_connected_,
              node_states_, host_link, host_subscribed, host_lost_pending,
              host_pc, host_ret, host_ops, host_cb, host_in, host_log>>

vars == <<edgeVars, hostVars, codec>>

\* ------------------------------------------------------------------ helpers

NoRet == [op |-> "none", res |-> "none", bd0 |-> 0]

\* A Sparkplug payload as far as the session engine reads it.
Payload(seq, bdSeq) == [seq |-> seq, bdSeq |-> bdSeq]

\* What publish_message is handed: topic (type, device), payload, qos. The
\* message also remembers the call that built it: its rank among the API calls
\* (the order in which they took the mutex) and whether the primary host was
\* seen online when it took the mutex.
Msg(type, dev, payload, qos) ==
  [type |-> type, dev |-> dev, seq |-> payload.seq, bdSeq |-> payload.bdSeq,
   qos |-> qos, call |-> ops + 1, online |-> primary_host_online_]

\* A message as recorded on the wire: the session (handle) it went out on, the
\* Last Will of that session, the node's bd_seq when it went out, whether the
\* client or the broker (delivering the Last Will) published it, and whether a
\* configured primary host was offline both when the call that built it began
\* and when the message went out.
OnWire(m, via) ==
  [type |-> m.type, dev |-> m.dev, seq |-> m.seq, bdSeq |-> m.bdSeq,
   qos |-> m.qos, sess |-> link, will |-> will, bd |-> bd_seq_num_, via |-> via,
   offline |-> config_primary /\ ~m.online /\ ~primary_host_online_]

\* A counter that is never reduced.
NextSeqNoWrap(s) == s + 1

NextSeq(s) == (s + 1) % SEQ_NUMBER_MAX

\* PayloadBuilder death_payload; add_metric("bdSeq", n); build()  (no seq set)
DeathPayload(n) == Payload({}, {n})

\* The broker publishing the stored Last Will (NDEATH, death_qos, no seq).
LwtMessage ==
  [type |-> "NDEATH", dev |-> "", seq |-> {}, bdSeq |-> will, qos |-> DeathQos,
   sess |-> link, will |-> will, bd |-> bd_seq_num_, via |-> "lwt",
   offline |-> FALSE]

NoMsg ==
  [type |-> "none", dev |-> "", seq |-> {}, bdSeq |-> {}, qos |-> 0, call |-> 0,
   online |-> FALSE]
\* No STATE message has been handled yet.
NoStateSeen == [last |-> "none", online_on |-> 0, from |-> "none"]

\* The locals of a call; bd0 and seq0 are history: bd_seq_num_ and seq_num_ when
\* the call began.
NoLoc ==
  [op |-> "none", msg |-> NoMsg, client |-> 0, bd0 |-> 0, seq0 |-> 0,
   api |-> "cpp"]

OthersIdle(t) == \A u \in AppThreads \ {t} : pc[u] = "idle"

\* The call returns to its caller. The result is recorded with the bd_seq the
\* call started from.
Return(t, op, res) ==
  /\ pc' = [pc EXCEPT ![t] = "idle"]
  /\ loc' = [loc EXCEPT ![t] = NoLoc]
  /\ ret' = [ret EXCEPT ![t] =
              [op |-> op, res |-> res,
               bd0 |-> IF pc[t] = "idle" THEN bd_seq_num_ ELSE loc[t].bd0]]

Goto(t, p) == pc' = [pc EXCEPT ![t] = p]

\* The API call a step belongs to: the one being entered, or the one (rebirth,
\* publish_death) that called connect() / disconnect().
OpOf(t, entry) == IF pc[t] = "idle" THEN entry ELSE loc[t].op

\* ---------------------------------------------------------------- transport

\* MQTTAsync_connect + the wait on its future: success, or one of the failures
\* (return code, timeout, onFailure), which all leave the link down.
ConnectOutcomes == {"ok"} \cup (IF fails < MaxFail THEN {"fail"} ELSE {})

\* MQTTAsync_subscribe + the wait on its future, on handle h.
SubscribeOutcomes(h) ==
  IF h # 0 /\ link = h
  THEN {"ok"} \cup (IF fails < MaxFail THEN {"fail"} ELSE {})
  ELSE {"down"}

\* MQTTAsync_disconnect + the wait on its future, on handle h: acknowledged,
\* not acknowledged within DISCONNECT_TIMEOUT_MS, or refused (return code).
DisconnectOutcomes(h) ==
  IF link = h
  THEN {"ok", "timeout"} \cup (IF fails < MaxFail THEN {"rcfail"} ELSE {})
  ELSE {"rcfail"}

\* MQTTAsync_sendMessage on handle h (publish_message, edge_node.cpp:398-422).
SendOutcomes(h) ==
  IF h = 0 THEN {"null"}
  ELSE IF link = h
  THEN {"ok"} \cup (IF fails < MaxFail THEN {"fail"} ELSE {})
  ELSE {"down"}

SendResult(o) ==
  CASE o = "ok" -> "ok"
    [] o = "null" -> "Not connected"
    [] OTHER -> "Failed to publish"

\* publish_message's effect on the wire and on the failure budget.
PublishMessage(m, o) ==
  /\ wire' = IF o = "ok" THEN Append(wire, OnWire(m, "client")) ELSE wire
  /\ fails' = IF o = "fail" THEN fails + 1 ELSE fails

\* --------------------------------------------------------------------- Init

\* An EdgeNode after construction, with or without a primary_host_id.
EdgeConstructed(primary) ==
  /\ config_primary = primary
  /\ seq_num_ = 0
  /\ bd_seq_num_ = 0
  /\ is_connected_ = FALSE
  /\ primary_host_online_ = FALSE
  /\ last_birth_payload_ = {}
  /\ death_payload_data_ = {}
  /\ device_states_ = [d \in Devices |-> [known |-> FALSE, is_online |-> FALSE]]
  /\ client_ = 0
  /\ mutex_ = "free"
  /\ link = 0
  /\ will = {}
  /\ subs = {}
  /\ lost_pending = 0
  /\ wire = << >>
  /\ pc = [t \in AppThreads |-> "idle"]
  /\ loc = [t \in AppThreads |-> NoLoc]
  /\ ret = [t \in AppThreads |-> NoRet]
  /\ cb = "idle"
  /\ ops = 0
  /\ fails = 0
  /\ state_seen = NoStateSeen

InitEdge == \E primary \in BOOLEAN : EdgeConstructed(primary)

\* ------------------------------------------------------- EdgeNode::connect

\* connect() up to MQTTAsync_connect: takes the mutex (kept until connect()
\* returns), replaces client_ (the old handle is destroyed: if its connection
\* was up, the socket closes without DISCONNECT and the broker publishes its
\* Last Will), increments bd_seq, prepares the NDEATH payload.
ConnectBegin(t) ==
  /\ pc[t] \in {"idle", "conn_enter"}
  /\ mutex_ = "free"
  /\ OthersIdle(t)
  /\ pc[t] = "idle" => ops < MaxOps
  /\ ops' = IF pc[t] = "idle" THEN ops + 1 ELSE ops
  /\ \E created \in {TRUE} \cup (IF fails < MaxFail THEN {FALSE} ELSE {}) :
       IF ~created
       THEN \* MQTTAsync_create failed: "Failed to create client"
            /\ Return(t, OpOf(t, "connect"), "Failed to create client")
            /\ fails' = fails + 1
            /\ UNCHANGED state_seen
            /\ UNCHANGED <<config_primary, seq_num_, bd_seq_num_, is_connected_,
                           primary_host_online_, last_birth_payload_,
                           death_payload_data_, device_states_, client_, mutex_,
                           link, will, subs, lost_pending, wire, cb>>
       ELSE /\ mutex_' = t
            /\ client_' = bd_seq_num_ + 1
            /\ IF client_ # 0 /\ link = client_
               THEN /\ wire' = Append(wire, LwtMessage)
                    /\ link' = 0
                    /\ will' = {}
                    /\ subs' = {}
               ELSE UNCHANGED <<wire, link, will, subs>>
            /\ lost_pending' = 0
            /\ bd_seq_num_' = bd_seq_num_ + 1
            /\ death_payload_data_' = {bd_seq_num_ + 1}
            /\ loc' = [loc EXCEPT ![t] =
                         IF pc[t] = "idle"
                         THEN [NoLoc EXCEPT !.op = "connect", !.bd0 = bd_seq_num_,
                                       !.seq0 = seq_num_]
                         ELSE loc[t]]
            /\ Goto(t, "connect_mqtt")
            /\ UNCHANGED state_seen
            /\ UNCHANGED <<config_primary, seq_num_, is_connected_,
                           primary_host_online_, last_birth_payload_,
                           device_states_, ret, cb, fails>>
  /\ UNCHANGED <<hostVars, codec>>

\* connect() has failed or finished: the mutex is released and the call
\* returns, or rebirth() goes on to republish the NBIRTH.
ConnectEnd(t, res) ==
  /\ mutex_' = "free"
  /\ IF loc[t].op = "rebirth" /\ res = "ok"
     THEN Goto(t, "rebirth_pub") /\ UNCHANGED <<loc, ret>>
     ELSE Return(t, loc[t].op, res)

\* MQTTAsync_connect answered (edge_node.cpp:275-295).
ConnectMqttDone(t) ==
  /\ pc[t] = "connect_mqtt"
  /\ \E o \in ConnectOutcomes :
       IF o = "ok"
       THEN /\ link' = client_
            /\ will' = death_payload_data_
            /\ subs' = {}
            /\ is_connected_' = TRUE
            /\ primary_host_online_' =
                 IF ~config_primary THEN TRUE ELSE primary_host_online_
            /\ Goto(t, "connect_ncmd")
            /\ UNCHANGED <<mutex_, loc, ret, fails>>
       ELSE /\ ConnectEnd(t, "Connection failed")
            /\ fails' = fails + 1
            /\ UNCHANGED <<link, will, subs, is_connected_, primary_host_online_>>
  /\ UNCHANGED state_seen
  /\ UNCHANGED <<config_primary, seq_num_, bd_seq_num_, last_birth_payload_,
                 death_payload_data_, device_states_, client_, lost_pending,
                 wire, cb, ops>>
  /\ UNCHANGED <<hostVars, codec>>

\* The NCMD subscription answered (edge_node.cpp:297-327).
ConnectNcmdDone(t) ==
  /\ pc[t] = "connect_ncmd"
  /\ \E o \in SubscribeOutcomes(client_) :
       IF o = "ok"
       THEN /\ subs' = subs \cup {"NCMD"}
            /\ fails' = fails
            /\ IF config_primary
               THEN Goto(t, "connect_state") /\ UNCHANGED <<mutex_, loc, ret>>
               ELSE ConnectEnd(t, "ok")
       ELSE /\ ConnectEnd(t, "NCMD subscription failed")
            /\ fails' = IF o = "fail" THEN fails + 1 ELSE fails
            /\ subs' = subs
  /\ UNCHANGED state_seen
  /\ UNCHANGED <<config_primary, seq_num_, bd_seq_num_, is_connected_,
                 primary_host_online_, last_birth_payload_, death_payload_data_,
                 device_states_, client_, link, will, lost_pending, wire, cb, ops>>
  /\ UNCHANGED <<hostVars, codec>>

\* The STATE subscription answered (edge_node.cpp:329-358).
ConnectStateDone(t) ==
  /\ pc[t] = "connect_state"
  /\ \E o \in SubscribeOutcomes(client_) :
       IF o = "ok"
       THEN /\ subs' = subs \cup {"STATE"}
            /\ fails' = fails
            /\ ConnectEnd(t, "ok")
       ELSE /\ ConnectEnd(t, "STATE subscription failed")
            /\ fails' = IF o = "fail" THEN fails + 1 ELSE fails
            /\ subs' = subs
  /\ UNCHANGED state_seen
  /\ UNCHANGED <<config_primary, seq_num_, bd_seq_num_, is_connected_,
                 primary_host_online_, last_birth_payload_, death_payload_data_,
                 device_states_, client_, link, will, lost_pending, wire, cb, ops>>
  /\ UNCHANGED <<hostVars, codec>>

\* ---------------------------------------------------- EdgeNode::disconnect

\* disconnect() up to MQTTAsync_disconnect; the mutex is kept until it returns.
DisconnectBegin(t) ==
  /\ pc[t] \in {"idle", "disc_enter"}
  /\ mutex_ = "free"
  /\ pc[t] = "idle" => ops < MaxOps
  /\ ops' = IF pc[t] = "idle" THEN ops + 1 ELSE ops
  /\ IF client_ = 0
     THEN /\ Return(t, OpOf(t, "disconnect"), "Not connected")
          /\ UNCHANGED mutex_
     ELSE
          /\ mutex_' = t
          /\ loc' = [loc EXCEPT ![t] =
                       IF pc[t] = "idle"
                       THEN [NoLoc EXCEPT !.op = "disconnect", !.bd0 = bd_seq_num_,
                                       !.seq0 = seq_num_]
                       ELSE loc[t]]
          /\ Goto(t, "disc_wait")
          /\ UNCHANGED ret
  /\ UNCHANGED state_seen
  /\ UNCHANGED <<config_primary, seq_num_, bd_seq_num_, is_connected_,
                 primary_host_online_, last_birth_payload_, death_payload_data_,
                 device_states_, client_, link, will, subs, lost_pending, wire,
                 cb, fails>>
  /\ UNCHANGED <<hostVars, codec>>

\* MQTTAsync_disconnect was refused, or the wait on its future ended: with the
\* acknowledgement (edge_node.cpp:377-395), or at DISCONNECT_TIMEOUT_MS.
DisconnectDone(t) ==
  /\ pc[t] = "disc_wait"
  /\ \E o \in DisconnectOutcomes(client_) :
       IF o = "rcfail"
       THEN /\ Return(t, loc[t].op, "Failed to disconnect")
            /\ mutex_' = "free"
            /\ fails' = IF link = client_ THEN fails + 1 ELSE fails
            /\ UNCHANGED <<is_connected_, link, will, subs, lost_pending>>
       ELSE IF o = "timeout"
       THEN \* the deadline passed: the client has given the connection up
            /\ link' = 0
            /\ will' = {}
            /\ subs' = {}
            /\ lost_pending' = 0
            /\ Goto(t, "disc_timeout")
            /\ UNCHANGED <<mutex_, loc, ret, fails, is_connected_>>
       ELSE /\ is_connected_' = FALSE
            /\ mutex_' = "free"
            /\ link' = 0
            /\ will' = {}
            /\ subs' = {}
            /\ lost_pending' = 0
            /\ fails' = fails
            /\ IF loc[t].op = "rebirth"
               THEN Goto(t, "conn_enter") /\ UNCHANGED <<loc, ret>>
               ELSE Return(t, loc[t].op, "ok")
  /\ UNCHANGED state_seen
  /\ UNCHANGED <<config_primary, seq_num_, bd_seq_num_, primary_host_online_,
                 last_birth_payload_, death_payload_data_, device_states_,
                 client_, wire, cb, ops>>
  /\ UNCHANGED <<hostVars, codec>>

\* The branch status == std::future_status::timeout of disconnect()
\* (edge_node.cpp:384-387): is_connected_ is cleared and the call returns {}.
DisconnectTimedOut(t) ==
  /\ pc[t] = "disc_timeout"
  /\ mutex_' = "free"
  /\ is_connected_' = FALSE
  /\ IF loc[t].op = "rebirth"
     THEN Goto(t, "conn_enter") /\ UNCHANGED <<loc, ret>>
     ELSE Return(t, loc[t].op, "ok")
  /\ UNCHANGED state_seen
  /\ UNCHANGED <<config_primary, seq_num_, bd_seq_num_, primary_host_online_,
                 last_birth_payload_, death_payload_data_, device_states_,
                 client_, link, will, subs, lost_pending, wire, cb, ops, fails>>
  /\ UNCHANGED <<hostVars, codec>>

\* ------------------------------------------------- EdgeNode::publish_birth

\* The bdSeq metric of the NBIRTH: the caller's, or bd_seq_num_ injected when the
\* payload has none (edge_node.cpp:443-461).
BirthPayload(callerBdSeq) ==
  Payload({0}, IF callerBdSeq = {} THEN {bd_seq_num_} ELSE callerBdSeq)

\* The first locked section of publish_birth (edge_node.cpp:430-472).
PublishBirthBegin(t) ==
  /\ pc[t] = "idle"
  /\ mutex_ = "free"
  /\ ops < MaxOps
  /\ ops' = ops + 1
  /\ IF ~is_connected_
     THEN Return(t, "publish_birth", "Not connected")
     ELSE IF ~primary_host_online_
     THEN Return(t, "publish_birth", "Primary host is not online")
     ELSE
          /\ \E callerBdSeq \in {{}, {0}, {bd_seq_num_}} :
               loc' = [loc EXCEPT ![t] =
                        [op |-> "publish_birth",
                         msg |-> Msg("NBIRTH", "", BirthPayload(callerBdSeq), DataQos),
                         client |-> client_, bd0 |-> bd_seq_num_, seq0 |-> seq_num_, api |-> "cpp"]]
          /\ Goto(t, "birth_send")
          /\ UNCHANGED ret
  /\ UNCHANGED state_seen
  /\ UNCHANGED <<config_primary, seq_num_, bd_seq_num_, is_connected_,
                 primary_host_online_, last_birth_payload_, death_payload_data_,
                 device_states_, client_, mutex_, link, will, subs, lost_pending,
                 wire, cb, fails>>
  /\ UNCHANGED <<hostVars, codec>>

\* publish_message outside the lock (edge_node.cpp:474-477).
PublishBirthSend(t) ==
  /\ pc[t] = "birth_send"
  /\ \E o \in SendOutcomes(loc[t].client) :
       /\ PublishMessage(loc[t].msg, o)
       /\ IF o = "ok"
          THEN Goto(t, "birth_commit") /\ UNCHANGED <<loc, ret>>
          ELSE Return(t, "publish_birth", SendResult(o))
  /\ UNCHANGED state_seen
  /\ UNCHANGED <<config_primary, seq_num_, bd_seq_num_, is_connected_,
                 primary_host_online_, last_birth_payload_, death_payload_data_,
                 device_states_, client_, mutex_, link, will, subs, lost_pending,
                 cb, ops>>
  /\ UNCHANGED <<hostVars, codec>>

\* The second locked section (edge_node.cpp:479-485).
PublishBirthCommit(t) ==
  /\ pc[t] = "birth_commit"
  /\ mutex_ = "free"
  /\ last_birth_payload_' = {Payload(loc[t].msg.seq, loc[t].msg.bdSeq)}
  /\ seq_num_' = 0
  /\ Return(t, "publish_birth", "ok")
  /\ UNCHANGED state_seen
  /\ UNCHANGED <<config_primary, bd_seq_num_, is_connected_, primary_host_online_,
                 death_payload_data_, device_states_, client_, mutex_, link, will,
                 subs, lost_pending, wire, cb, ops, fails>>
  /\ UNCHANGED <<hostVars, codec>>

\* -------------------------------------------------- EdgeNode::publish_data

\* The caller reaches publish_data / publish_device_data through the C++ API
\* with its own PayloadBuilder, or through the C API with a serialized payload
\* that the binding copies into a fresh builder.
Apis == {"cpp", "c"}

\* copy_metrics_to_builder with copy_seq = true.
BuilderSeqCopied(api, payloadSeq) == payloadSeq

\* The seq of the PayloadBuilder handed to EdgeNode: the C binding calls
\* copy_metrics_to_builder(builder, proto_payload, false), which leaves the seq
\* out (c_bindings.cpp:30-32, 266, 326).
BuilderSeq(api, payloadSeq) == IF api = "c" THEN {} ELSE payloadSeq

\* if (!payload.has_seq()) payload.set_seq(seq_num_)  (edge_node.cpp:503-505)
DataSeq(preset, s) == IF preset = {} THEN {s} ELSE preset

\* The locked section of publish_data (edge_node.cpp:494-516), for a caller
\* that makes at most `calls` API calls and hands in payloads whose seq is drawn
\* from `presets`.
PublishDataLocked(t, calls, presets) ==
  /\ pc[t] = "idle"
  /\ mutex_ = "free"
  /\ ops < calls
  /\ ops' = ops + 1
  /\ IF ~is_connected_
     THEN Return(t, "publish_data", "Not connected") /\ UNCHANGED seq_num_
     ELSE
          /\ seq_num_' = NextSeq(seq_num_)
          /\ \E api \in Apis, preset \in presets :
               loc' = [loc EXCEPT ![t] =
                        [op |-> "publish_data",
                         msg |-> Msg("NDATA", "",
                                     Payload(DataSeq(BuilderSeq(api, preset),
                                                     NextSeq(seq_num_)), {}),
                                     DataQos),
                         client |-> client_, bd0 |-> bd_seq_num_, seq0 |-> seq_num_, api |-> api]]
          /\ Goto(t, "data_send")
          /\ UNCHANGED ret
  /\ UNCHANGED state_seen
  /\ UNCHANGED <<config_primary, bd_seq_num_, is_connected_, primary_host_online_,
                 last_birth_payload_, death_payload_data_, device_states_, client_,
                 mutex_, link, will, subs, lost_pending, wire, cb, fails>>
  /\ UNCHANGED <<hostVars, codec>>

PublishDataBegin(t) == PublishDataLocked(t, MaxOps, PresetSeqs)

\* return publish_message(...) of publish_data, publish_device_data,
\* publish_node_command and publish_device_command
\* (edge_node.cpp:518, 760, 844, 874).
PublishDataSend(t) ==
  /\ pc[t] \in {"data_send", "ddata_send", "cmd_send"}
  /\ \E o \in SendOutcomes(loc[t].client) :
       /\ PublishMessage(loc[t].msg, o)
       /\ Return(t, loc[t].op, SendResult(o))
  /\ UNCHANGED state_seen
  /\ UNCHANGED <<config_primary, seq_num_, bd_seq_num_, is_connected_,
                 primary_host_online_, last_birth_payload_, death_payload_data_,
                 device_states_, client_, mutex_, link, will, subs, lost_pending,
                 cb, ops>>
  /\ UNCHANGED <<hostVars, codec>>

\* ------------------------------------------------- EdgeNode::publish_death

\* The locked section of publish_death (edge_node.cpp:527-552).
PublishDeathBegin(t) ==
  /\ pc[t] = "idle"
  /\ mutex_ = "free"
  /\ ops < MaxOps
  /\ ops' = ops + 1
  /\ IF ~is_connected_
     THEN Return(t, "publish_death", "Not connected") /\ UNCHANGED seq_num_
     ELSE
          /\ seq_num_' = NextSeq(seq_num_)
          /\ loc' = [loc EXCEPT ![t] =
                      [op |-> "publish_death",
                       msg |-> Msg("NDEATH", "",
                                   Payload({NextSeq(seq_num_)}, {bd_seq_num_}),
                                   DeathQos),
                       client |-> client_, bd0 |-> bd_seq_num_, seq0 |-> seq_num_, api |-> "cpp"]]
          /\ Goto(t, "death_send")
          /\ UNCHANGED ret
  /\ UNCHANGED state_seen
  /\ UNCHANGED <<config_primary, bd_seq_num_, is_connected_, primary_host_online_,
                 last_birth_payload_, death_payload_data_, device_states_, client_,
                 mutex_, link, will, subs, lost_pending, wire, cb, fails>>
  /\ UNCHANGED <<hostVars, codec>>

\* publish_message, then disconnect() (edge_node.cpp:554-559).
PublishDeathSend(t) ==
  /\ pc[t] = "death_send"
  /\ \E o \in SendOutcomes(loc[t].client) :
       /\ PublishMessage(loc[t].msg, o)
       /\ IF o = "ok"
          THEN Goto(t, "disc_enter") /\ UNCHANGED <<loc, ret>>
          ELSE Return(t, "publish_death", SendResult(o))
  /\ UNCHANGED state_seen
  /\ UNCHANGED <<config_primary, seq_num_, bd_seq_num_, is_connected_,
                 primary_host_online_, last_birth_payload_, death_payload_data_,
                 device_states_, client_, mutex_, link, will, subs, lost_pending,
                 cb, ops>>
  /\ UNCHANGED <<hostVars, codec>>

\* ------------------------------------------------------- EdgeNode::rebirth

\* The stored NBIRTH with its bdSeq metric (if it has one) set to new_bdseq and
\* its seq set to 0 (edge_node.cpp:584-593).
RebirthPayload(p, new_bdseq) ==
  Payload({0}, IF p.bdSeq # {} THEN {new_bdseq} ELSE {})

\* A rebirth that does not look at is_connected_.
RebirthBeginUnchecked(t) ==
  /\ pc[t] = "idle"
  /\ mutex_ = "free"
  /\ ops < MaxOps
  /\ ops' = ops + 1
  /\ IF last_birth_payload_ = {}
     THEN /\ Return(t, "rebirth", "No previous birth payload stored")
          /\ UNCHANGED <<last_birth_payload_, death_payload_data_>>
     ELSE
          /\ \E p \in last_birth_payload_ :
               LET q == RebirthPayload(p, bd_seq_num_ + 1) IN
               /\ last_birth_payload_' = {q}
               /\ loc' = [loc EXCEPT ![t] =
                           [op |-> "rebirth", msg |-> Msg("NBIRTH", "", q, DataQos),
                            client |-> 0, bd0 |-> bd_seq_num_, seq0 |-> seq_num_, api |-> "cpp"]]
          /\ death_payload_data_' = {bd_seq_num_ + 1}
          /\ Goto(t, "disc_enter")
          /\ UNCHANGED ret
  /\ UNCHANGED state_seen
  /\ UNCHANGED <<config_primary, seq_num_, bd_seq_num_, is_connected_,
                 primary_host_online_, device_states_, client_, mutex_, link, will,
                 subs, lost_pending, wire, cb, fails>>
  /\ UNCHANGED <<hostVars, codec>>

\* The locked section of rebirth (edge_node.cpp:567-613); disconnect() follows.
RebirthBegin(t) ==
  /\ pc[t] = "idle"
  /\ mutex_ = "free"
  /\ ops < MaxOps
  /\ ops' = ops + 1
  /\ IF ~is_connected_
     THEN /\ Return(t, "rebirth", "Not connected")
          /\ UNCHANGED <<last_birth_payload_, death_payload_data_>>
     ELSE IF last_birth_payload_ = {}
     THEN /\ Return(t, "rebirth", "No previous birth payload stored")
          /\ UNCHANGED <<last_birth_payload_, death_payload_data_>>
     ELSE
          /\ \E p \in last_birth_payload_ :
               LET q == RebirthPayload(p, bd_seq_num_ + 1) IN
               /\ last_birth_payload_' = {q}
               /\ loc' = [loc EXCEPT ![t] =
                           [op |-> "rebirth", msg |-> Msg("NBIRTH", "", q, DataQos),
                            client |-> 0, bd0 |-> bd_seq_num_, seq0 |-> seq_num_, api |-> "cpp"]]
          /\ death_payload_data_' = {bd_seq_num_ + 1}
          /\ Goto(t, "disc_enter")
          /\ UNCHANGED ret
  /\ UNCHANGED state_seen
  /\ UNCHANGED <<config_primary, seq_num_, bd_seq_num_, is_connected_,
                 primary_host_online_, device_states_, client_, mutex_, link, will,
                 subs, lost_pending, wire, cb, fails>>
  /\ UNCHANGED <<hostVars, codec>>

\* After disconnect() and connect(): client_ is read under the lock and the
\* NBIRTH is handed to publish_message (edge_node.cpp:617-628).
RebirthPublish(t) ==
  /\ pc[t] = "rebirth_pub"
  /\ mutex_ = "free"
  /\ \E o \in SendOutcomes(client_) :
       /\ PublishMessage(loc[t].msg, o)
       /\ IF o = "ok"
          THEN Goto(t, "rebirth_commit") /\ UNCHANGED <<loc, ret>>
          ELSE Return(t, "rebirth", SendResult(o))
  /\ UNCHANGED state_seen
  /\ UNCHANGED <<config_primary, seq_num_, bd_seq_num_, is_connected_,
                 primary_host_online_, last_birth_payload_, death_payload_data_,
                 device_states_, client_, mutex_, link, will, subs, lost_pending,
                 cb, ops>>
  /\ UNCHANGED <<hostVars, codec>>

\* A rebirth that forgets to reset the counter.
RebirthCommitKeepsSeq(t) ==
  /\ pc[t] = "rebirth_commit"
  /\ mutex_ = "free"
  /\ Return(t, "rebirth", "ok")
  /\ UNCHANGED state_seen
  /\ UNCHANGED <<config_primary, seq_num_, bd_seq_num_, is_connected_,
                 primary_host_online_, last_birth_payload_, death_payload_data_,
                 device_states_, client_, mutex_, link, will, subs, lost_pending,
                 wire, cb, ops, fails>>
  /\ UNCHANGED <<hostVars, codec>>

\* The last locked section of rebirth (edge_node.cpp:630-635).
RebirthCommit(t) ==
  /\ pc[t] = "rebirth_commit"
  /\ mutex_ = "free"
  /\ seq_num_' = 0
  /\ Return(t, "rebirth", "ok")
  /\ UNCHANGED state_seen
  /\ UNCHANGED <<config_primary, bd_seq_num_, is_connected_, primary_host_online_,
                 last_birth_payload_, death_payload_data_, device_states_, client_,
                 mutex_, link, will, subs, lost_pending, wire, cb, ops, fails>>
  /\ UNCHANGED <<hostVars, codec>>

\* ------------------------------------------ EdgeNode::publish_device_birth

DcmdTopic(d) == "DCMD/" \o d

\* A publish_device_birth that does not ask for the NBIRTH.
PublishDeviceBirthBeginUnchecked(t, d) ==
  /\ pc[t] = "idle"
  /\ mutex_ = "free"
  /\ ops < MaxOps
  /\ ops' = ops + 1
  /\ IF ~is_connected_
     THEN Return(t, "publish_device_birth", "Not connected")
          /\ UNCHANGED seq_num_
     ELSE IF ~primary_host_online_
     THEN Return(t, "publish_device_birth", "Primary host is not online")
          /\ UNCHANGED seq_num_
     ELSE
          /\ seq_num_' = NextSeq(seq_num_)
          /\ loc' = [loc EXCEPT ![t] =
                      [op |-> "publish_device_birth",
                       msg |-> Msg("DBIRTH", d, Payload({NextSeq(seq_num_)}, {}),
                                   DataQos),
                       client |-> client_, bd0 |-> bd_seq_num_, seq0 |-> seq_num_, api |-> "cpp"]]
          /\ Goto(t, "dbirth_sub")
          /\ UNCHANGED ret
  /\ UNCHANGED state_seen
  /\ UNCHANGED <<config_primary, bd_seq_num_, is_connected_, primary_host_online_,
                 last_birth_payload_, death_payload_data_, device_states_, client_,
                 mutex_, link, will, subs, lost_pending, wire, cb, fails>>
  /\ UNCHANGED <<hostVars, codec>>

\* The first locked section of publish_device_birth (edge_node.cpp:645-672).
PublishDeviceBirthBegin(t, d) ==
  /\ pc[t] = "idle"
  /\ mutex_ = "free"
  /\ ops < MaxOps
  /\ ops' = ops + 1
  /\ IF ~is_connected_
     THEN Return(t, "publish_device_birth", "Not connected")
          /\ UNCHANGED seq_num_
     ELSE IF ~primary_host_online_
     THEN Return(t, "publish_device_birth", "Primary host is not online")
          /\ UNCHANGED seq_num_
     ELSE IF last_birth_payload_ = {}
     THEN Return(t, "publish_device_birth", "Must publish NBIRTH before DBIRTH")
          /\ UNCHANGED seq_num_
     ELSE
          /\ seq_num_' = NextSeq(seq_num_)
          /\ loc' = [loc EXCEPT ![t] =
                      [op |-> "publish_device_birth",
                       msg |-> Msg("DBIRTH", d, Payload({NextSeq(seq_num_)}, {}),
                                   DataQos),
                       client |-> client_, bd0 |-> bd_seq_num_, seq0 |-> seq_num_, api |-> "cpp"]]
          /\ Goto(t, "dbirth_sub")
          /\ UNCHANGED ret
  /\ UNCHANGED state_seen
  /\ UNCHANGED <<config_primary, bd_seq_num_, is_connected_, primary_host_online_,
                 last_birth_payload_, death_payload_data_, device_states_, client_,
                 mutex_, link, will, subs, lost_pending, wire, cb, fails>>
  /\ UNCHANGED <<hostVars, codec>>

\* A publish_device_birth that goes on to publish whatever the subscription did.
PublishDeviceBirthSubscribeIgnored(t) ==
  /\ pc[t] = "dbirth_sub"
  /\ \E o \in SubscribeOutcomes(loc[t].client) :
       /\ fails' = IF o = "fail" THEN fails + 1 ELSE fails
       /\ subs' = IF o = "ok" THEN subs \cup {DcmdTopic(loc[t].msg.dev)} ELSE subs
       /\ Goto(t, "dbirth_send")
       /\ UNCHANGED <<loc, ret>>
  /\ UNCHANGED state_seen
  /\ UNCHANGED <<config_primary, seq_num_, bd_seq_num_, is_connected_,
                 primary_host_online_, last_birth_payload_, death_payload_data_,
                 device_states_, client_, mutex_, link, will, lost_pending, wire,
                 cb, ops>>
  /\ UNCHANGED <<hostVars, codec>>

\* The DCMD subscription, outside the lock (edge_node.cpp:674-706).
PublishDeviceBirthSubscribed(t) ==
  /\ pc[t] = "dbirth_sub"
  /\ \E o \in SubscribeOutcomes(loc[t].client) :
       /\ fails' = IF o = "fail" THEN fails + 1 ELSE fails
       /\ IF o = "ok"
          THEN /\ subs' = subs \cup {DcmdTopic(loc[t].msg.dev)}
               /\ Goto(t, "dbirth_send")
               /\ UNCHANGED <<loc, ret>>
          ELSE /\ subs' = subs
               /\ Return(t, "publish_device_birth", "DCMD subscription failed")
  /\ UNCHANGED state_seen
  /\ UNCHANGED <<config_primary, seq_num_, bd_seq_num_, is_connected_,
                 primary_host_online_, last_birth_payload_, death_payload_data_,
                 device_states_, client_, mutex_, link, will, lost_pending, wire,
                 cb, ops>>
  /\ UNCHANGED <<hostVars, codec>>

\* publish_message (edge_node.cpp:708-711).
PublishDeviceBirthSend(t) ==
  /\ pc[t] = "dbirth_send"
  /\ \E o \in SendOutcomes(loc[t].client) :
       /\ PublishMessage(loc[t].msg, o)
       /\ IF o = "ok"
          THEN Goto(t, "dbirth_commit") /\ UNCHANGED <<loc, ret>>
          ELSE Return(t, "publish_device_birth", SendResult(o))
  /\ UNCHANGED state_seen
  /\ UNCHANGED <<config_primary, seq_num_, bd_seq_num_, is_connected_,
                 primary_host_online_, last_birth_payload_, death_payload_data_,
                 device_states_, client_, mutex_, link, will, subs, lost_pending,
                 cb, ops>>
  /\ UNCHANGED <<hostVars, codec>>

\* The second locked section (edge_node.cpp:713-720).
PublishDeviceBirthCommit(t) ==
  /\ pc[t] = "dbirth_commit"
  /\ mutex_ = "free"
  /\ device_states_' = [device_states_ EXCEPT ![loc[t].msg.dev] =
                         [known |-> TRUE, is_online |-> TRUE]]
  /\ Return(t, "publish_device_birth", "ok")
  /\ UNCHANGED state_seen
  /\ UNCHANGED <<config_primary, seq_num_, bd_seq_num_, is_connected_,
                 primary_host_online_, last_birth_payload_, death_payload_data_,
                 client_, mutex_, link, will, subs, lost_pending, wire, cb, ops,
                 fails>>
  /\ UNCHANGED <<hostVars, codec>>

\* ------------------------------------------- EdgeNode::publish_device_data

\* The locked section of publish_device_data (edge_node.cpp:730-758); the send
\* is PublishDataSend.
PublishDeviceDataLocked(t, d, presets) ==
  /\ pc[t] = "idle"
  /\ mutex_ = "free"
  /\ ops < MaxOps
  /\ ops' = ops + 1
  /\ IF ~is_connected_
     THEN Return(t, "publish_device_data", "Not connected")
          /\ UNCHANGED seq_num_
     ELSE IF ~device_states_[d].known \/ ~device_states_[d].is_online
     THEN Return(t, "publish_device_data", "Must publish DBIRTH before DDATA")
          /\ UNCHANGED seq_num_
     ELSE
          /\ seq_num_' = NextSeq(seq_num_)
          /\ \E api \in Apis, preset \in presets :
               loc' = [loc EXCEPT ![t] =
                        [op |-> "publish_device_data",
                         msg |-> Msg("DDATA", d,
                                     Payload(DataSeq(BuilderSeq(api, preset),
                                                     NextSeq(seq_num_)), {}),
                                     DataQos),
                         client |-> client_, bd0 |-> bd_seq_num_, seq0 |-> seq_num_, api |-> api]]
          /\ Goto(t, "ddata_send")
          /\ UNCHANGED ret
  /\ UNCHANGED state_seen
  /\ UNCHANGED <<config_primary, bd_seq_num_, is_connected_, primary_host_online_,
                 last_birth_payload_, death_payload_data_, device_states_, client_,
                 mutex_, link, will, subs, lost_pending, wire, cb, fails>>
  /\ UNCHANGED <<hostVars, codec>>

PublishDeviceDataBegin(t, d) == PublishDeviceDataLocked(t, d, PresetSeqs)

\* ------------------------------------------ EdgeNode::publish_device_death

\* A publish_device_death that does not look the device up.
PublishDeviceDeathUnchecked(t, d) ==
  /\ pc[t] = "idle"
  /\ mutex_ = "free"
  /\ ops < MaxOps
  /\ ops' = ops + 1
  /\ IF ~is_connected_
     THEN Return(t, "publish_device_death", "Not connected")
          /\ UNCHANGED seq_num_
     ELSE
          /\ seq_num_' = NextSeq(seq_num_)
          /\ loc' = [loc EXCEPT ![t] =
                      [op |-> "publish_device_death",
                       msg |-> Msg("DDEATH", d, Payload({NextSeq(seq_num_)}, {}),
                                   DataQos),
                       client |-> client_, bd0 |-> bd_seq_num_, seq0 |-> seq_num_, api |-> "cpp"]]
          /\ Goto(t, "ddeath_send")
          /\ UNCHANGED ret
  /\ UNCHANGED state_seen
  /\ UNCHANGED <<config_primary, bd_seq_num_, is_connected_, primary_host_online_,
                 last_birth_payload_, death_payload_data_, device_states_, client_,
                 mutex_, link, will, subs, lost_pending, wire, cb, fails>>
  /\ UNCHANGED <<hostVars, codec>>

\* The first locked section of publish_device_death (edge_node.cpp:770-799).
PublishDeviceDeathBegin(t, d) ==
  /\ pc[t] = "idle"
  /\ mutex_ = "free"
  /\ ops < MaxOps
  /\ ops' = ops + 1
  /\ IF ~is_connected_
     THEN Return(t, "publish_device_death", "Not connected")
          /\ UNCHANGED seq_num_
     ELSE IF ~device_states_[d].known
     THEN Return(t, "publish_device_death", "Unknown device")
          /\ UNCHANGED seq_num_
     ELSE
          /\ seq_num_' = NextSeq(seq_num_)
          /\ loc' = [loc EXCEPT ![t] =
                      [op |-> "publish_device_death",
                       msg |-> Msg("DDEATH", d, Payload({NextSeq(seq_num_)}, {}),
                                   DataQos),
                       client |-> client_, bd0 |-> bd_seq_num_, seq0 |-> seq_num_, api |-> "cpp"]]
          /\ Goto(t, "ddeath_send")
          /\ UNCHANGED ret
  /\ UNCHANGED state_seen
  /\ UNCHANGED <<config_primary, bd_seq_num_, is_connected_, primary_host_online_,
                 last_birth_payload_, death_payload_data_, device_states_, client_,
                 mutex_, link, will, subs, lost_pending, wire, cb, fails>>
  /\ UNCHANGED <<hostVars, codec>>

\* publish_message (edge_node.cpp:801-804).
PublishDeviceDeathSend(t) ==
  /\ pc[t] = "ddeath_send"
  /\ \E o \in SendOutcomes(loc[t].client) :
       /\ PublishMessage(loc[t].msg, o)
       /\ IF o = "ok"
          THEN Goto(t, "ddeath_commit") /\ UNCHANGED <<loc, ret>>
          ELSE Return(t, "publish_device_death", SendResult(o))
  /\ UNCHANGED state_seen
  /\ UNCHANGED <<config_primary, seq_num_, bd_seq_num_, is_connected_,
                 primary_host_online_, last_birth_payload_, death_payload_data_,
                 device_states_, client_, mutex_, link, will, subs, lost_pending,
                 cb, ops>>
  /\ UNCHANGED <<hostVars, codec>>

\* The second locked section (edge_node.cpp:806-814).
PublishDeviceDeathCommit(t) ==
  /\ pc[t] = "ddeath_commit"
  /\ mutex_ = "free"
  /\ device_states_' =
       IF device_states_[loc[t].msg.dev].known
       THEN [device_states_ EXCEPT ![loc[t].msg.dev].is_online = FALSE]
       ELSE device_states_
  /\ Return(t, "publish_device_death", "ok")
  /\ UNCHANGED state_seen
  /\ UNCHANGED <<config_primary, seq_num_, bd_seq_num_, is_connected_,
                 primary_host_online_, last_birth_payload_, death_payload_data_,
                 client_, mutex_, link, will, subs, lost_pending, wire, cb, ops,
                 fails>>
  /\ UNCHANGED <<hostVars, codec>>

\* ---------------- EdgeNode::publish_node_command / publish_device_command

CommandOps ==
  {[op |-> "publish_node_command", type |-> "NCMD", dev |-> ""]}
  \cup {[op |-> "publish_device_command", type |-> "DCMD", dev |-> d] :
          d \in Devices}

\* The locked section of publish_node_command and publish_device_command
\* (edge_node.cpp:826-842, 856-872): the payload is built as the caller made
\* it; seq_num_ is not touched. The send is PublishDataSend.
PublishCommandBegin(t) ==
  /\ pc[t] = "idle"
  /\ mutex_ = "free"
  /\ ops < MaxOps
  /\ ops' = ops + 1
  /\ \E c \in CommandOps :
       IF ~is_connected_
       THEN Return(t, c.op, "Not connected")
       ELSE /\ loc' = [loc EXCEPT ![t] =
                         [op |-> c.op,
                          msg |-> Msg(c.type, c.dev, Payload({}, {}), DataQos),
                          client |-> client_, bd0 |-> bd_seq_num_,
                          seq0 |-> seq_num_,
                          api |-> "cpp"]]
            /\ Goto(t, "cmd_send")
            /\ UNCHANGED ret
  /\ UNCHANGED state_seen
  /\ UNCHANGED <<config_primary, seq_num_, bd_seq_num_, is_connected_,
                 primary_host_online_, last_birth_payload_, death_payload_data_,
                 device_states_, client_, mutex_, link, will, subs, lost_pending,
                 wire, cb, fails>>
  /\ UNCHANGED <<hostVars, codec>>

\* ------------------------------------------- broker and MQTT callback thread

\* The connection drops: the broker publishes the stored Last Will, and Paho
\* will call on_connection_lost.
NetworkDrop ==
  /\ link # 0
  /\ wire' = Append(wire, LwtMessage)
  /\ lost_pending' = link
  /\ link' = 0
  /\ will' = {}
  /\ subs' = {}
  /\ UNCHANGED state_seen
  /\ UNCHANGED <<config_primary, seq_num_, bd_seq_num_, is_connected_,
                 primary_host_online_, last_birth_payload_, death_payload_data_,
                 device_states_, client_, mutex_, pc, loc, ret, cb, ops, fails>>
  /\ UNCHANGED <<hostVars, codec>>

\* A connection-lost handler that also forgets the session's devices and seq.
OnConnectionLostResets ==
  /\ lost_pending # 0
  /\ cb = "idle"
  /\ mutex_ = "free"
  /\ is_connected_' = FALSE
  /\ lost_pending' = 0
  /\ seq_num_' = 0
  /\ device_states_' = [d \in Devices |-> [known |-> FALSE, is_online |-> FALSE]]
  /\ UNCHANGED state_seen
  /\ UNCHANGED <<config_primary, bd_seq_num_, primary_host_online_,
                 last_birth_payload_, death_payload_data_, client_,
                 mutex_, link, will, subs, wire, pc, loc, ret, cb, ops, fails>>
  /\ UNCHANGED <<hostVars, codec>>

\* EdgeNode::on_connection_lost (edge_node.cpp:58-70).
OnConnectionLost ==
  /\ lost_pending # 0
  /\ cb = "idle"
  /\ mutex_ = "free"
  /\ is_connected_' = FALSE
  /\ lost_pending' = 0
  /\ UNCHANGED state_seen
  /\ UNCHANGED <<config_primary, seq_num_, bd_seq_num_, primary_host_online_,
                 last_birth_payload_, death_payload_data_, device_states_, client_,
                 mutex_, link, will, subs, wire, pc, loc, ret, cb, ops, fails>>
  /\ UNCHANGED <<hostVars, codec>>

\* payload_str.find("\"online\":true") / find("\"online\":false")
\* (edge_node.cpp:105-109) on the three kinds of STATE body.
StateBodies == {"online_true", "online_false", "other"}

\* A STATE handler that only ever learns that the host is online.
PrimaryHostOnlineAfterOnlineOnly(body) ==
  IF body = "online_true" THEN TRUE ELSE primary_host_online_

PrimaryHostOnlineAfter(body) ==
  CASE body = "online_true" -> TRUE
    [] body = "online_false" -> FALSE
    [] OTHER -> primary_host_online_

\* EdgeNode::on_message_arrived for a STATE topic (edge_node.cpp:100-114).
OnStateArrived ==
  /\ "STATE" \in subs
  /\ cb = "idle"
  /\ mutex_ = "free"
  /\ \E body \in StateBodies :
       /\ primary_host_online_' = PrimaryHostOnlineAfter(body)
       /\ state_seen' =
            CASE body = "online_true" ->
                   [last |-> body, online_on |-> link, from |-> "primary"]
              [] body = "online_false" ->
                   [last |-> body, online_on |-> 0, from |-> "primary"]
              [] OTHER -> state_seen
  /\ UNCHANGED <<config_primary, seq_num_, bd_seq_num_, is_connected_,
                 last_birth_payload_, death_payload_data_, device_states_, client_,
                 mutex_, link, will, subs, lost_pending, wire, pc, loc, ret, cb,
                 ops, fails>>
  /\ UNCHANGED <<hostVars, codec>>

\* EdgeNode::on_message_arrived for the STATE topic of a host that is not the
\* configured primary host (edge_node.cpp:100-114): the topic is only tested
\* for the prefix spBv1.0/STATE/. The broker delivers such a message when it
\* holds a matching subscription for the client id besides those connect()
\* made, as in a session kept with clean_session = false.
OnOtherStateArrived ==
  /\ link # 0
  /\ cb = "idle"
  /\ mutex_ = "free"
  /\ \E body \in StateBodies :
       /\ primary_host_online_' = PrimaryHostOnlineAfter(body)
       /\ state_seen' = IF body = "other" THEN state_seen
                        ELSE [state_seen EXCEPT !.from = "other"]
  /\ UNCHANGED <<config_primary, seq_num_, bd_seq_num_, is_connected_,
                 last_birth_payload_, death_payload_data_, device_states_, client_,
                 mutex_, link, will, subs, lost_pending, wire, pc, loc, ret, cb,
                 ops, fails>>
  /\ UNCHANGED <<hostVars, codec>>

\* EdgeNode::on_message_arrived for NCMD / DCMD: the command callback is entered
\* (edge_node.cpp:125-132); no lock is taken on this path.
OnCommandArrived ==
  /\ subs \ {"STATE"} # {}
  /\ cb = "idle"
  /\ cb' = "command_callback"
  /\ UNCHANGED state_seen
  /\ UNCHANGED <<config_primary, seq_num_, bd_seq_num_, is_connected_,
                 primary_host_online_, last_birth_payload_, death_payload_data_,
                 device_states_, client_, mutex_, link, will, subs, lost_pending,
                 wire, pc, loc, ret, ops, fails>>
  /\ UNCHANGED <<hostVars, codec>>

CommandCallbackReturn ==
  /\ cb = "command_callback"
  /\ cb' = "idle"
  /\ UNCHANGED state_seen
  /\ UNCHANGED <<config_primary, seq_num_, bd_seq_num_, is_connected_,
                 primary_host_online_, last_birth_payload_, death_payload_data_,
                 device_states_, client_, mutex_, link, will, subs, lost_pending,
                 wire, pc, loc, ret, ops, fails>>
  /\ UNCHANGED <<hostVars, codec>>

\* ============================================================ HostApplication

Nodes == {"n1"}
HostThread == "T1"

\* Sequence numbers and bdSeq metrics carried by arriving messages.
HostSeqs == {{}, {0}, {1}, {255}}
HostBdSeqs == {{}, {0}, {1}}

NodeTypes == {"NBIRTH", "NDEATH", "NDATA", "NCMD"}
DeviceTypes == {"DBIRTH", "DDATA", "DDEATH", "DCMD"}

\* Metric names and aliases of a payload's metrics, besides bdSeq; a metric is
\* [alias, name], each present or not (has_alias(), has_name()).
Aliases == {1, 2}
MetricNames == {"x", "y"}
Metric(alias, name) == [alias |-> alias, name |-> name]

HostMsg(kind, type, node, dev, seq, bdSeq) ==
  [kind |-> kind, type |-> type, node |-> node, dev |-> dev, seq |-> seq,
   bdSeq |-> bdSeq, metrics |-> << >>, topic |-> << >>]

WithMetrics(m, metrics) == [m EXCEPT !.metrics = metrics]

NoHostMsg == HostMsg("none", "none", "", "", {}, {})

\* What the broker can deliver to on_message_arrived: Sparkplug messages, a
\* STATE message, a topic Topic::parse rejects, a payload protobuf rejects.
HostMessages ==
  {HostMsg("sparkplug", ty, n, "", q, b) :
     ty \in {"NBIRTH", "NDEATH"}, n \in Nodes, q \in HostSeqs, b \in HostBdSeqs}
  \cup {HostMsg("sparkplug", ty, n, "", q, {}) :
          ty \in {"NDATA", "NCMD"}, n \in Nodes, q \in HostSeqs}
  \cup {HostMsg("sparkplug", ty, n, d, q, {}) :
          ty \in DeviceTypes, n \in Nodes, d \in Devices, q \in HostSeqs}
  \cup {HostMsg("state", "STATE", n, "", {}, {}) : n \in Nodes}
  \cup {HostMsg(k, "none", "", "", {}, {}) : k \in {"bad_topic", "bad_payload"}}

\* HostApplication::DeviceState and NodeState as constructed
\* (host_application.hpp:123-131, 150-160).
EmptyAliasMap == [a \in Aliases |-> {}]

DefaultDeviceState ==
  [is_online |-> FALSE, birth_received |-> FALSE, metrics_stale |-> FALSE,
   alias_map |-> EmptyAliasMap]

DefaultNodeState ==
  [is_online |-> FALSE, last_seq |-> 255, bd_seq |-> 0, birth_received |-> FALSE,
   alias_map |-> EmptyAliasMap, devices |-> [d \in Devices |-> {}]]

Value(opt) == CHOOSE v \in opt : TRUE

\* The loop over payload.metrics() looking for "bdSeq"; bd_seq stays 0 if absent.
BdSeqMetric(m) == IF m.bdSeq = {} THEN 0 ELSE Value(m.bdSeq)

\* An expected_seq computed without the modulo.
SeqGapNoWrap(state, m) == m.seq # {} /\ Value(m.seq) # state.last_seq + 1

\* seq != expected_seq, for a payload that has a seq.
SeqGap(state, m) == m.seq # {} /\ Value(m.seq) # NextSeq(state.last_seq)

\* A validator that keeps its baseline when the seq is out of order.
TrackSeqOnlyInOrder(state, m) ==
  IF m.seq = {} \/ SeqGap(state, m) THEN state
  ELSE [state EXCEPT !.last_seq = Value(m.seq)]

\* if (payload.has_seq()) state.last_seq = seq
TrackSeq(state, m) ==
  IF m.seq = {} THEN state ELSE [state EXCEPT !.last_seq = Value(m.seq)]

Validated(state, log, ok) == [state |-> state, log |-> log, ok |-> ok]

\* alias_map[metric.alias()] = metric.name() for the metrics that have both, in
\* payload order, on the map `map` (host_application.cpp:553-558, 628-633).
RECURSIVE StoreAliases(_, _)
StoreAliases(map, metrics) ==
  IF metrics = << >> THEN map
  ELSE LET metric == Head(metrics) IN
       StoreAliases(IF metric.alias # {} /\ metric.name # {}
                    THEN [map EXCEPT ![Value(metric.alias)] = metric.name]
                    ELSE map,
                    Tail(metrics))

\* alias_map.clear() and the loop over payload.metrics().
AliasMapOf(m) == StoreAliases(EmptyAliasMap, m.metrics)

ValidateNBirth(state, m) ==
  IF m.seq # {} /\ Value(m.seq) # 0 THEN Validated(state, {"WARN"}, FALSE)
  ELSE IF m.bdSeq = {} THEN Validated(state, {"WARN"}, FALSE)
  ELSE Validated([state EXCEPT !.bd_seq = BdSeqMetric(m), !.last_seq = 0,
                               !.is_online = TRUE, !.birth_received = TRUE,
                               !.alias_map = AliasMapOf(m)],
                 {}, TRUE)

\* An NDEATH rule that never compares bdSeq.
ValidateNDeathSilent(state, m) ==
  Validated([state EXCEPT !.is_online = FALSE], {}, TRUE)

ValidateNDeath(state, m) ==
  Validated([state EXCEPT !.is_online = FALSE],
            IF state.birth_received /\ BdSeqMetric(m) # state.bd_seq
            THEN {"WARN"} ELSE {},
            TRUE)

\* An NDATA rule that does not ask for the node's NBIRTH.
ValidateNDataUnchecked(state, m) ==
  Validated(TrackSeq(state, m), IF SeqGap(state, m) THEN {"WARN"} ELSE {}, TRUE)

ValidateNData(state, m) ==
  IF ~state.birth_received THEN Validated(state, {"WARN"}, FALSE)
  ELSE Validated(TrackSeq(state, m),
                 IF SeqGap(state, m) THEN {"WARN"} ELSE {}, TRUE)

ValidateDBirth(state, m) ==
  IF ~state.birth_received THEN Validated(state, {"WARN"}, FALSE)
  ELSE Validated([TrackSeq(state, m) EXCEPT !.devices[m.dev] =
                    {[is_online |-> TRUE, birth_received |-> TRUE,
                      metrics_stale |-> FALSE, alias_map |-> AliasMapOf(m)]}],
                 IF SeqGap(state, m) THEN {"WARN"} ELSE {}, TRUE)

ValidateDData(state, m) ==
  IF ~state.birth_received THEN Validated(state, {"WARN"}, FALSE)
  ELSE IF state.devices[m.dev] = {}
          \/ ~Value(state.devices[m.dev]).birth_received
  THEN Validated(state, {"WARN"}, FALSE)
  ELSE Validated(TrackSeq(state, m),
                 IF SeqGap(state, m) THEN {"WARN"} ELSE {}, TRUE)

ValidateDDeath(state, m) ==
  IF state.devices[m.dev] # {}
  THEN Validated([state EXCEPT !.devices[m.dev] =
                    {[Value(state.devices[m.dev]) EXCEPT
                        !.is_online = FALSE, !.metrics_stale = TRUE]}],
                 {"DEBUG"}, TRUE)
  ELSE Validated(state, {"WARN"}, TRUE)

\* HostApplication::validate_message on the entry `state` that
\* node_states_[key] returned (host_application.cpp:520-697).
ValidateMessage(state, m) ==
  CASE m.type = "NBIRTH" -> ValidateNBirth(state, m)
    [] m.type = "NDEATH" -> ValidateNDeath(state, m)
    [] m.type = "NDATA" -> ValidateNData(state, m)
    [] m.type = "DBIRTH" -> ValidateDBirth(state, m)
    [] m.type = "DDATA" -> ValidateDData(state, m)
    [] m.type = "DDEATH" -> ValidateDDeath(state, m)
    [] OTHER -> Validated(state, {}, TRUE)

\* node_states_[key]: the entry, default-constructed if there was none.
NodeEntry(n) ==
  IF node_states_[n] = {} THEN DefaultNodeState ELSE Value(node_states_[n])

HostConfigs ==
  {[validate_sequence |-> TRUE, log_callback |-> TRUE, message_callback |-> TRUE],
   [validate_sequence |-> FALSE, log_callback |-> TRUE, message_callback |-> TRUE],
   [validate_sequence |-> TRUE, log_callback |-> FALSE,
    message_callback |-> FALSE]}

NoHostRet == [op |-> "none", res |-> "none"]

\* A HostApplication after construction with configuration cfg.
HostConstructed(cfg) ==
  /\ host_config_ = cfg
  /\ host_mutex_ = "free"
  /\ host_client_ = FALSE
  /\ host_is_connected_ = FALSE
  /\ node_states_ = [n \in Nodes |-> {}]
  /\ host_link = FALSE
  /\ host_subscribed = FALSE
  /\ host_lost_pending = FALSE
  /\ host_pc = "idle"
  /\ host_ret = NoHostRet
  /\ host_ops = 0
  /\ host_cb = "idle"
  /\ host_in = NoHostMsg
  /\ host_log = {}

InitHost == \E cfg \in HostConfigs : HostConstructed(cfg)

HostReturn(op, res) ==
  /\ host_pc' = "idle"
  /\ host_ret' = [op |-> op, res |-> res]

\* -------------------------------------------------- HostApplication API calls

\* connect() up to MQTTAsync_connect (host_application.cpp:106-157); the
\* scoped_lock is kept until connect() returns.
HostConnectBegin ==
  /\ host_pc = "idle"
  /\ host_mutex_ = "free"
  /\ host_ops < MaxHostOps
  /\ host_ops' = host_ops + 1
  /\ \E created \in BOOLEAN :
       IF ~created
       THEN /\ HostReturn("connect", "Failed to create client")
            /\ UNCHANGED <<host_mutex_, host_client_, host_link, host_subscribed,
                           host_lost_pending>>
       ELSE /\ host_mutex_' = HostThread
            /\ host_client_' = TRUE
            /\ host_link' = FALSE
            /\ host_subscribed' = FALSE
            /\ host_lost_pending' = FALSE
            /\ host_pc' = "connect_wait"
            /\ UNCHANGED host_ret
  /\ UNCHANGED <<host_config_, host_is_connected_, node_states_, host_cb, host_in,
                 host_log>>
  /\ UNCHANGED <<edgeVars, codec>>

\* MQTTAsync_connect and the wait on its future (host_application.cpp:157-180).
HostConnectDone ==
  /\ host_pc = "connect_wait"
  /\ host_mutex_' = "free"
  /\ \E o \in {"ok", "fail", "timeout"} :
       IF o = "ok"
       THEN /\ host_is_connected_' = TRUE
            /\ host_link' = TRUE
            /\ HostReturn("connect", "ok")
       ELSE /\ HostReturn("connect",
                          IF o = "fail" THEN "Failed to connect"
                          ELSE "Connection timeout")
            /\ UNCHANGED <<host_is_connected_, host_link>>
  /\ UNCHANGED <<host_config_, host_client_, node_states_, host_subscribed,
                 host_lost_pending, host_cb, host_in, host_log>>
  /\ UNCHANGED <<host_ops, edgeVars, codec>>

\* disconnect() up to MQTTAsync_disconnect (host_application.cpp:183-199).
HostDisconnectBegin ==
  /\ host_pc = "idle"
  /\ host_mutex_ = "free"
  /\ host_ops < MaxHostOps
  /\ host_ops' = host_ops + 1
  /\ IF ~host_client_
     THEN HostReturn("disconnect", "Not connected") /\ UNCHANGED host_mutex_
     ELSE /\ host_mutex_' = HostThread
          /\ host_pc' = "disconnect_wait"
          /\ UNCHANGED host_ret
  /\ UNCHANGED <<host_config_, host_client_, host_is_connected_, node_states_,
                 host_link, host_subscribed, host_lost_pending, host_cb, host_in,
                 host_log>>
  /\ UNCHANGED <<edgeVars, codec>>

\* MQTTAsync_disconnect answered, refused, or timed out
\* (host_application.cpp:199-217).
HostDisconnectDone ==
  /\ host_pc = "disconnect_wait"
  /\ host_mutex_' = "free"
  /\ \E o \in {"ok", "timeout", "rcfail"} :
       IF o = "rcfail"
       THEN /\ HostReturn("disconnect", "Failed to disconnect")
            /\ UNCHANGED <<host_is_connected_, host_link, host_subscribed,
                           host_lost_pending>>
       ELSE /\ host_is_connected_' = FALSE
            /\ host_link' = FALSE
            /\ host_subscribed' = FALSE
            /\ host_lost_pending' = FALSE
            /\ HostReturn("disconnect", "ok")
  /\ UNCHANGED <<host_config_, host_client_, node_states_, host_cb, host_in,
                 host_log>>
  /\ UNCHANGED <<host_ops, edgeVars, codec>>

\* publish_state_birth / publish_state_death up to MQTTAsync_sendMessage inside
\* publish_raw_message (host_application.cpp:220-254, 308-338); the scoped_lock
\* is kept until the call returns.
HostPublishStateBegin ==
  /\ host_pc = "idle"
  /\ host_mutex_ = "free"
  /\ host_ops < MaxHostOps
  /\ host_ops' = host_ops + 1
  /\ \E op \in {"publish_state_birth", "publish_state_death"} :
       IF ~host_is_connected_
       THEN HostReturn(op, "Not connected") /\ UNCHANGED host_mutex_
       ELSE /\ host_mutex_' = HostThread
            /\ host_pc' = "state_publish_wait"
            /\ host_ret' = [op |-> op, res |-> "running"]
  /\ UNCHANGED <<host_config_, host_client_, host_is_connected_, node_states_,
                 host_link, host_subscribed, host_lost_pending, host_cb, host_in,
                 host_log>>
  /\ UNCHANGED <<edgeVars, codec>>

\* MQTTAsync_sendMessage and the wait of up to 5 s for its acknowledgement
\* (host_application.cpp:338-354).
HostPublishStateDone ==
  /\ host_pc = "state_publish_wait"
  /\ host_mutex_' = "free"
  /\ \E o \in IF host_link THEN {"ok", "Publish timeout", "Publish failed"}
              ELSE {"Failed to publish", "Publish timeout"} :
       HostReturn(host_ret.op, o)
  /\ UNCHANGED <<host_config_, host_client_, host_is_connected_, node_states_,
                 host_link, host_subscribed, host_lost_pending, host_cb, host_in,
                 host_log>>
  /\ UNCHANGED <<host_ops, edgeVars, codec>>

\* The locked section of publish_node_command / publish_device_command
\* (host_application.cpp:256-305).
HostPublishCommandBegin ==
  /\ host_pc = "idle"
  /\ host_mutex_ = "free"
  /\ host_ops < MaxHostOps
  /\ host_ops' = host_ops + 1
  /\ \E op \in {"publish_node_command", "publish_device_command"} :
       IF ~host_is_connected_
       THEN HostReturn(op, "Not connected")
       ELSE /\ host_pc' = "command_send"
            /\ host_ret' = [op |-> op, res |-> "running"]
  /\ UNCHANGED <<host_config_, host_mutex_, host_client_, host_is_connected_,
                 node_states_, host_link, host_subscribed, host_lost_pending,
                 host_cb, host_in, host_log>>
  /\ UNCHANGED <<edgeVars, codec>>

\* publish_command_message, outside the lock (host_application.cpp:357-378).
HostPublishCommandSend ==
  /\ host_pc = "command_send"
  /\ IF ~host_client_ \/ ~host_is_connected_
     THEN HostReturn(host_ret.op, "Not connected")
     ELSE \E o \in IF host_link THEN {"ok", "Failed to publish"}
                   ELSE {"Failed to publish"} :
            HostReturn(host_ret.op, o)
  /\ UNCHANGED <<host_config_, host_mutex_, host_client_, host_is_connected_,
                 node_states_, host_link, host_subscribed, host_lost_pending,
                 host_cb, host_in, host_log>>
  /\ UNCHANGED <<host_ops, edgeVars, codec>>

\* subscribe_all_groups / subscribe_group / subscribe_node / subscribe_state up
\* to MQTTAsync_subscribe (host_application.cpp:380-458).
HostSubscribeBegin ==
  /\ host_pc = "idle"
  /\ host_mutex_ = "free"
  /\ host_ops < MaxHostOps
  /\ host_ops' = host_ops + 1
  /\ IF ~host_client_
     THEN HostReturn("subscribe", "Not connected") /\ UNCHANGED host_mutex_
     ELSE /\ host_mutex_' = HostThread
          /\ host_pc' = "subscribe_call"
          /\ UNCHANGED host_ret
  /\ UNCHANGED <<host_config_, host_client_, host_is_connected_, node_states_,
                 host_link, host_subscribed, host_lost_pending, host_cb, host_in,
                 host_log>>
  /\ UNCHANGED <<edgeVars, codec>>

\* MQTTAsync_subscribe returned; the lock is released on return.
HostSubscribeDone ==
  /\ host_pc = "subscribe_call"
  /\ host_mutex_' = "free"
  /\ \E o \in IF host_link THEN {"ok", "Failed to subscribe"}
              ELSE {"Failed to subscribe"} :
       /\ host_subscribed' = (host_subscribed \/ o = "ok")
       /\ HostReturn("subscribe", o)
  /\ UNCHANGED <<host_config_, host_client_, host_is_connected_, node_states_,
                 host_link, host_lost_pending, host_cb, host_in,
                 host_log>>
  /\ UNCHANGED <<host_ops, edgeVars, codec>>

\* The lookup of get_metric_name in the map `states`
\* (host_application.cpp:479-504): nothing for a node without entry or a
\* device without entry, else what the alias map holds for the alias.
GetMetricName(states, n, d, alias) ==
  IF states[n] = {} THEN {}
  ELSE LET node_state == Value(states[n]) IN
       IF d # ""
       THEN IF node_state.devices[d] = {} THEN {}
            ELSE Value(node_state.devices[d]).alias_map[alias]
       ELSE node_state.alias_map[alias]

\* get_metric_name(group, node, device, alias): a lookup under the mutex that
\* changes nothing; the result is the name or nullopt.
HostGetMetricName ==
  /\ host_pc = "idle"
  /\ host_mutex_ = "free"
  /\ host_ops < MaxHostOps
  /\ host_ops' = host_ops + 1
  /\ \E n \in Nodes, d \in Devices \cup {""}, alias \in Aliases :
       LET name == GetMetricName(node_states_, n, d, alias) IN
       HostReturn("get_metric_name",
                  IF name = {} THEN "nullopt" ELSE Value(name))
  /\ UNCHANGED <<host_config_, host_mutex_, host_client_, host_is_connected_,
                 node_states_, host_link, host_subscribed, host_lost_pending,
                 host_cb, host_in, host_log>>
  /\ UNCHANGED <<edgeVars, codec>>

\* ------------------------------------------ HostApplication MQTT callbacks

\* HostApplication::log called with the mutex held (locked) or not: it invokes
\* config_.log_callback if one is set (host_application.cpp:507-511).
LogCall(level, locked) == [level |-> level, locked |-> locked]

\* on_message_arrived / on_connection_lost return: the message is freed.
HostCallbackDone ==
  /\ host_cb' = "idle"
  /\ host_in' = NoHostMsg
  /\ host_log' = {}

HostNetworkDrop ==
  /\ host_link
  /\ host_link' = FALSE
  /\ host_subscribed' = FALSE
  /\ host_lost_pending' = TRUE
  /\ UNCHANGED <<host_config_, host_mutex_, host_client_, host_is_connected_,
                 node_states_, host_pc, host_ret, host_cb, host_in,
                 host_log>>
  /\ UNCHANGED <<host_ops, edgeVars, codec>>

\* HostApplication::on_connection_lost (host_application.cpp:773-789): the flag
\* is cleared under the lock, the WARN is logged after the lock is released.
HostOnConnectionLost ==
  /\ host_lost_pending
  /\ host_cb = "idle"
  /\ host_mutex_ = "free"
  /\ host_is_connected_' = FALSE
  /\ host_lost_pending' = FALSE
  /\ IF host_config_.log_callback
     THEN /\ host_in' = HostMsg("connection_lost", "none", "", "", {}, {})
                  /\ host_log' = {LogCall("WARN", FALSE)}
          /\ host_cb' = "log_callback"
     ELSE HostCallbackDone
  /\ UNCHANGED <<host_config_, host_mutex_, host_client_, node_states_, host_link,
                 host_subscribed, host_pc, host_ret>>
  /\ UNCHANGED <<host_ops, edgeVars, codec>>

\* HostApplication::on_message_arrived up to the locked block
\* (host_application.cpp:699-754): a STATE message goes straight to the message
\* callback; an unparsable topic or payload is logged and dropped.
HostMessageArrivedFrom(messages) ==
  /\ host_cb = "idle"
  /\ host_link
  /\ host_subscribed
  /\ \E m \in messages :
       LET level == CASE m.kind = "bad_topic" -> "DEBUG"
                      [] m.kind = "bad_payload" -> "ERROR"
                      [] OTHER -> "none"
           callback == CASE m.kind = "state" -> host_config_.message_callback
                         [] m.kind = "sparkplug" -> TRUE
                         [] OTHER -> host_config_.log_callback
       IN IF ~callback
          THEN HostCallbackDone
          ELSE /\ host_in' = m
                            /\ host_log' = IF level = "none" THEN {}
                              ELSE {LogCall(level, FALSE)}
               /\ host_cb' = CASE m.kind = "state" -> "message_callback"
                               [] m.kind = "sparkplug" -> "validate"
                               [] OTHER -> "log_callback"
  /\ UNCHANGED <<host_config_, host_mutex_, host_client_, host_is_connected_,
                 node_states_, host_link, host_subscribed, host_lost_pending,
                 host_pc, host_ret>>
  /\ UNCHANGED <<host_ops, edgeVars, codec>>

HostMessageArrived == HostMessageArrivedFrom(HostMessages)

\* The locked block of on_message_arrived (host_application.cpp:756-759):
\* validate_message runs under the scoped_lock, and so does every log() it
\* makes; the lock is released when the log callback has returned.
HostValidate ==
  /\ host_cb = "validate"
  /\ host_mutex_ = "free"
  /\ IF ~host_config_.validate_sequence
     THEN /\ host_cb' = "deliver"
          /\ UNCHANGED <<node_states_, host_log, host_mutex_>>
     ELSE LET v == ValidateMessage(NodeEntry(host_in.node), host_in) IN
          /\ node_states_' = [node_states_ EXCEPT ![host_in.node] = {v.state}]
          /\ host_log' = {LogCall(l, TRUE) : l \in v.log}
          /\ IF v.log # {} /\ host_config_.log_callback
             THEN host_mutex_' = CbThread /\ host_cb' = "log_callback"
             ELSE host_mutex_' = "free" /\ host_cb' = "deliver"
  /\ UNCHANGED <<host_config_, host_client_, host_is_connected_, host_link,
                 host_subscribed, host_lost_pending, host_pc, host_ret, host_in>>
  /\ UNCHANGED <<host_ops, edgeVars, codec>>

\* The user's log callback returns.
HostLogCallbackReturn ==
  /\ host_cb = "log_callback"
  /\ host_mutex_' = IF host_mutex_ = CbThread THEN "free" ELSE host_mutex_
  /\ IF host_in.kind = "sparkplug"
     THEN host_cb' = "deliver" /\ UNCHANGED <<host_in, host_log>>
     ELSE HostCallbackDone
  /\ UNCHANGED <<host_config_, host_client_, host_is_connected_, node_states_,
                 host_link, host_subscribed, host_lost_pending, host_pc, host_ret>>
  /\ UNCHANGED <<host_ops, edgeVars, codec>>

\* A delivery stage that drops the messages the validator warned about.
HostDeliverUnlessWarned ==
  /\ host_cb = "deliver"
  /\ IF host_config_.message_callback /\ LogCall("WARN", TRUE) \notin host_log
     THEN host_cb' = "message_callback"
          /\ UNCHANGED <<host_in, host_log>>
     ELSE HostCallbackDone
  /\ UNCHANGED <<host_config_, host_mutex_, host_client_, host_is_connected_,
                 node_states_, host_link, host_subscribed, host_lost_pending,
                 host_pc, host_ret>>
  /\ UNCHANGED <<host_ops, edgeVars, codec>>

\* After the locked block: the message callback, if one is set
\* (host_application.cpp:761-766).
HostDeliver ==
  /\ host_cb = "deliver"
  /\ IF host_config_.message_callback
     THEN host_cb' = "message_callback"
          /\ UNCHANGED <<host_in, host_log>>
     ELSE HostCallbackDone
  /\ UNCHANGED <<host_config_, host_mutex_, host_client_, host_is_connected_,
                 node_states_, host_link, host_subscribed, host_lost_pending,
                 host_pc, host_ret>>
  /\ UNCHANGED <<host_ops, edgeVars, codec>>

\* The user's message callback returns.
HostMessageCallbackReturn ==
  /\ host_cb = "message_callback"
  /\ HostCallbackDone
  /\ UNCHANGED <<host_config_, host_mutex_, host_client_, host_is_connected_,
                 node_states_, host_link, host_subscribed, host_lost_pending,
                 host_pc, host_ret>>
  /\ UNCHANGED <<host_ops, edgeVars, codec>>

\* =============================================================== Topic codec

\* Strings are sequences of symbols: "/" is the separator character, every
\* other symbol stands for a run of characters without "/".
NAMESPACE == "spBv1.0"

MessageTypes ==
  {"NBIRTH", "NDEATH", "DBIRTH", "DDEATH", "NDATA", "DDATA", "NCMD", "DCMD",
   "STATE"}

\* The strings a Topic's group_id, edge_node_id and device_id are drawn from:
\* the empty string, plain ids, the id that reads STATE, an id with a "/".
IdStrings == {<< >>, <<"a">>, <<"b">>, <<"STATE">>, <<"a", "/", "b">>}

TopicRecord(g, ty, n, d) ==
  [group_id |-> g, message_type |-> ty, edge_node_id |-> n, device_id |-> d]

Topics ==
  {TopicRecord(g, ty, n, d) :
     g \in IdStrings, ty \in MessageTypes, n \in IdStrings, d \in IdStrings}

\* Topic::to_string (topic.cpp:80-92).
Topic_to_string(t) ==
  IF t.message_type = "STATE"
  THEN <<NAMESPACE, "/", "STATE", "/">> \o t.edge_node_id
  ELSE LET base == <<NAMESPACE, "/">> \o t.group_id
                     \o <<"/", t.message_type, "/">> \o t.edge_node_id
       IN IF t.device_id # << >> THEN base \o <<"/">> \o t.device_id ELSE base

\* str.find(delim, start): the first position of "/" in s, 0 if there is none.
FindSlash(s) ==
  IF \E i \in 1..Len(s) : s[i] = "/"
  THEN CHOOSE i \in 1..Len(s) : s[i] = "/" /\ \A j \in 1..(i - 1) : s[j] # "/"
  ELSE 0

\* split_string_view(str, '/') (topic.cpp:63-76): the loop ends when start
\* reaches the end of the string, so a trailing "/" adds no empty part.
RECURSIVE SplitStringView(_)
SplitStringView(s) ==
  IF s = << >> THEN << >>
  ELSE IF FindSlash(s) = 0 THEN <<s>>
  ELSE <<SubSeq(s, 1, FindSlash(s) - 1)>>
         \o SplitStringView(SubSeq(s, FindSlash(s) + 1, Len(s)))

ParseOk(t) == [ok |-> TRUE, topic |-> t, error |-> ""]
ParseError(e) == [ok |-> FALSE, topic |-> TopicRecord(<< >>, "none", << >>, << >>),
                  error |-> e]

\* parse_message_type (topic.cpp:40-60) accepts exactly the nine names.
KnownMessageType(part) == Len(part) = 1 /\ part[1] \in MessageTypes

\* A parser that never reads the fifth part.
ParsedDeviceIdNone(parts) == << >>

\* if (parts.size() > 4) device_id = parts[4]  (topic.cpp:133-136)
ParsedDeviceId(parts) == IF Len(parts) > 4 THEN parts[5] ELSE << >>

\* Topic::parse (topic.cpp:94-143).
Topic_parse(s) ==
  LET parts == SplitStringView(s) IN
  IF Len(parts) < 2 THEN ParseError("Invalid topic format")
  ELSE IF parts[1] # <<NAMESPACE>> THEN ParseError("Invalid Sparkplug B topic")
  ELSE IF parts[2] = <<"STATE">>
  THEN IF Len(parts) < 3 THEN ParseError("STATE topic requires host_id")
       ELSE ParseOk(TopicRecord(<< >>, "STATE", parts[3], << >>))
  ELSE IF Len(parts) < 4 THEN ParseError("Invalid Sparkplug B topic")
  ELSE IF ~KnownMessageType(parts[3]) THEN ParseError("Unknown message type")
  ELSE ParseOk(TopicRecord(parts[2], parts[3][1], parts[4],
                           ParsedDeviceId(parts)))

NoParse == ParseError("")

\* No Topic is being converted.
NoCodec ==
  [stage |-> "none", topic |-> TopicRecord(<< >>, "none", << >>, << >>),
   str |-> << >>, result |-> NoParse]

\* A caller holds a Topic and is about to convert it.
CodecHolds(t) ==
  codec = [stage |-> "topic", topic |-> t, str |-> << >>, result |-> NoParse]

\* The caller calls t.to_string().
TopicToString ==
  /\ codec.stage = "topic"
  /\ codec' = [codec EXCEPT !.stage = "string", !.str = Topic_to_string(codec.topic)]
  /\ UNCHANGED <<edgeVars, hostVars>>

\* The caller hands that string to Topic::parse.
TopicParse ==
  /\ codec.stage = "string"
  /\ codec' = [codec EXCEPT !.stage = "parsed", !.result = Topic_parse(codec.str)]
  /\ UNCHANGED <<edgeVars, hostVars>>

\* ----------------------------------------------------------- specifications

\* Calls that open, close or renew the session.
LifecycleStep(t) ==
  \/ ConnectBegin(t)
  \/ ConnectMqttDone(t)
  \/ ConnectNcmdDone(t)
  \/ ConnectStateDone(t)
  \/ DisconnectBegin(t)
  \/ DisconnectDone(t)
  \/ DisconnectTimedOut(t)
  \/ PublishDeathBegin(t)
  \/ PublishDeathSend(t)
  \/ RebirthBegin(t)
  \/ RebirthPublish(t)
  \/ RebirthCommit(t)

\* Calls that publish within the session.
PublishStep(t) ==
  \/ PublishBirthBegin(t)
  \/ PublishBirthSend(t)
  \/ PublishBirthCommit(t)
  \/ PublishDataBegin(t)
  \/ PublishDataSend(t)
  \/ \E d \in Devices : PublishDeviceBirthBegin(t, d)
  \/ PublishDeviceBirthSubscribed(t)
  \/ PublishDeviceBirthSend(t)
  \/ PublishDeviceBirthCommit(t)
  \/ \E d \in Devices : PublishDeviceDataBegin(t, d)
  \/ \E d \in Devices : PublishDeviceDeathBegin(t, d)
  \/ PublishDeviceDeathSend(t)
  \/ PublishDeviceDeathCommit(t)

AppStep(t) == LifecycleStep(t) \/ PublishStep(t)

CallbackStep ==
  \/ NetworkDrop
  \/ OnConnectionLost
  \/ OnStateArrived
  \/ OnCommandArrived
  \/ CommandCallbackReturn

DefaultHostConfig ==
  [validate_sequence |-> TRUE, log_callback |-> TRUE, message_callback |-> TRUE]

\* An EdgeNode, next to a HostApplication that is constructed and left alone.
Init == InitEdge /\ HostConstructed(DefaultHostConfig) /\ codec = NoCodec

\* One application thread and the MQTT callback thread.
Next == AppStep("T1") \/ CallbackStep

Spec == Init /\ [][Next]_vars

\* One application thread using every operation of EdgeNode, the command
\* publishers included, while the connection may drop under it; no message
\* arrives for the node.
NextSession ==
  \/ AppStep("T1")
  \/ PublishCommandBegin("T1")
  \/ NetworkDrop
  \/ OnConnectionLost

SpecSession == Init /\ [][NextSession]_vars

\* A fresh PayloadBuilder for every NDATA, as in test_sequence_wraps: no seq set.
FreshBuilderSeqs == {{}}

\* An EdgeNode without primary host whose application connects, publishes the
\* NBIRTH and then NDATA after NDATA, each from a fresh PayloadBuilder, while
\* the connection stays up and the transport refuses nothing.
InitWrap ==
  EdgeConstructed(FALSE) /\ HostConstructed(DefaultHostConfig) /\ codec = NoCodec

NextWrap ==
  /\ \/ ConnectBegin("T1")
     \/ ConnectMqttDone("T1")
     \/ ConnectNcmdDone("T1")
     \/ PublishBirthBegin("T1")
     \/ PublishBirthSend("T1")
     \/ PublishBirthCommit("T1")
     \/ PublishDataLocked("T1", MaxWrapOps, FreshBuilderSeqs)
     \/ PublishDataSend("T1")
  /\ fails' = fails

SpecWrap == InitWrap /\ [][NextWrap]_vars

\* One application thread that connects, publishes its NBIRTH and then any mix
\* of NDATA, DBIRTH, DDATA, DDEATH and rebirth, with builders whose seq the
\* caller did not set, on a transport that never fails and a
\* connection that is not lost.
NextStream ==
  /\ \/ ConnectBegin("T1")
     \/ ConnectMqttDone("T1")
     \/ ConnectNcmdDone("T1")
     \/ DisconnectBegin("T1")
     \/ DisconnectDone("T1")
     \/ DisconnectTimedOut("T1")
     \/ RebirthBegin("T1")
     \/ RebirthPublish("T1")
     \/ RebirthCommit("T1")
     \/ PublishBirthBegin("T1")
     \/ PublishBirthSend("T1")
     \/ PublishBirthCommit("T1")
     \/ PublishDataLocked("T1", MaxOps, FreshBuilderSeqs)
     \/ PublishDataSend("T1")
     \/ \E d \in Devices : PublishDeviceBirthBegin("T1", d)
     \/ PublishDeviceBirthSubscribed("T1")
     \/ PublishDeviceBirthSend("T1")
     \/ PublishDeviceBirthCommit("T1")
     \/ \E d \in Devices : PublishDeviceDataLocked("T1", d, FreshBuilderSeqs)
     \/ \E d \in Devices : PublishDeviceDeathBegin("T1", d)
     \/ PublishDeviceDeathSend("T1")
     \/ PublishDeviceDeathCommit("T1")
  /\ fails' = fails

SpecStream == InitWrap /\ [][NextStream]_vars

\* One application thread that connects and publishes births on a broker that
\* keeps the client's session (clean_session = false) with a subscription to
\* the STATE topic of another host.
NextKeptSession ==
  \/ ConnectBegin("T1")
  \/ ConnectMqttDone("T1")
  \/ ConnectNcmdDone("T1")
  \/ ConnectStateDone("T1")
  \/ PublishBirthBegin("T1")
  \/ PublishBirthSend("T1")
  \/ PublishBirthCommit("T1")
  \/ NetworkDrop
  \/ OnConnectionLost
  \/ OnStateArrived
  \/ OnOtherStateArrived

SpecKeptSession == Init /\ [][NextKeptSession]_vars

\* Two application threads: T1 opens the session and both publish in it.
NextMT ==
  \/ \E t \in {"T1"} :
       ConnectBegin(t) \/ ConnectMqttDone(t) \/ ConnectNcmdDone(t)
         \/ ConnectStateDone(t)
  \/ \E t \in AppThreads :
       PublishBirthBegin(t) \/ PublishBirthSend(t) \/ PublishBirthCommit(t)
         \/ PublishDataBegin(t) \/ PublishDataSend(t)

SpecMT == Init /\ [][NextMT]_vars

HostApiStep ==
  \/ HostConnectBegin
  \/ HostConnectDone
  \/ HostDisconnectBegin
  \/ HostDisconnectDone
  \/ HostPublishStateBegin
  \/ HostPublishStateDone
  \/ HostPublishCommandBegin
  \/ HostPublishCommandSend
  \/ HostSubscribeBegin
  \/ HostSubscribeDone

HostCallbackStep ==
  \/ HostNetworkDrop
  \/ HostOnConnectionLost
  \/ HostMessageArrived
  \/ HostValidate
  \/ HostLogCallbackReturn
  \/ HostDeliver
  \/ HostMessageCallbackReturn

\* A HostApplication with one application thread and the MQTT callback thread,
\* next to an EdgeNode that is constructed and left alone.
InitHostApp == EdgeConstructed(FALSE) /\ InitHost /\ codec = NoCodec

NextHost == HostApiStep \/ HostCallbackStep

SpecHost == InitHostApp /\ [][NextHost]_vars

\* Births with metrics: lists of up to two metrics that carry an alias, a name
\* or both, in NBIRTHs with seq 0 or 1 and with or without bdSeq, and in
\* DBIRTHs.
BirthMetrics ==
  {Metric({1}, {"x"}), Metric({1}, {"y"}), Metric({2}, {"x"}), Metric({1}, {}),
   Metric({}, {"x"})}

MetricLists ==
  {<< >>} \cup {<<m>> : m \in BirthMetrics}
          \cup {<<m1, m2>> : m1 \in BirthMetrics, m2 \in BirthMetrics}

BirthMessages ==
  {WithMetrics(HostMsg("sparkplug", "NBIRTH", n, "", {q}, b), ms) :
     n \in Nodes, q \in {0, 1}, b \in {{}, {0}}, ms \in MetricLists}
  \cup {WithMetrics(HostMsg("sparkplug", "DBIRTH", n, d, {1}, {}), ms) :
          n \in Nodes, d \in Devices, ms \in MetricLists}

\* A HostApplication that connects, subscribes, receives births with metrics
\* and resolves aliases.
NextAlias ==
  \/ HostConnectBegin
  \/ HostConnectDone
  \/ HostSubscribeBegin
  \/ HostSubscribeDone
  \/ HostGetMetricName
  \/ HostMessageArrivedFrom(BirthMessages)
  \/ HostValidate
  \/ HostLogCallbackReturn
  \/ HostDeliver
  \/ HostMessageCallbackReturn

SpecAlias == InitHostApp /\ [][NextAlias]_vars

\* topic_str.starts_with(state_prefix), state_prefix being NAMESPACE "/STATE/"
\* (host_application.cpp:715-716).
StartsWithStatePrefix(s) ==
  Len(s) >= 4 /\ SubSeq(s, 1, 4) = <<NAMESPACE, "/", "STATE", "/">>

\* The one-symbol id an id string stands for, "" for the empty string.
IdOf(id) == IF id = << >> THEN "" ELSE id[1]

\* What on_message_arrived makes of a message with topic string s and a
\* payload protobuf can decode or not (host_application.cpp:713-754): the
\* prefix test comes first, then Topic::parse, then ParseFromArray.
InboundMsg(s, decodable, seq) ==
  LET parsed == Topic_parse(s)
      msg == IF StartsWithStatePrefix(s)
             THEN HostMsg("state", "STATE", IdOf(SubSeq(s, 5, Len(s))), "", {}, {})
             ELSE IF ~parsed.ok THEN HostMsg("bad_topic", "none", "", "", {}, {})
             ELSE IF ~decodable THEN HostMsg("bad_payload", "none", "", "", {}, {})
             ELSE HostMsg("sparkplug", parsed.topic.message_type,
                          IdOf(parsed.topic.edge_node_id),
                          IdOf(parsed.topic.device_id), seq, {0})
  IN [msg EXCEPT !.topic = s]

\* Topic strings the subscription spBv1.0/# can deliver for node n1 of group
\* g: Sparkplug topics, STATE topics with and without host id, and strings
\* with too few levels or an unknown message type.
InboundTopics ==
  {<<NAMESPACE, "/", "g", "/", ty, "/", "n1">> : ty \in {"NBIRTH", "NDATA", "NCMD"}}
  \cup {<<NAMESPACE, "/", "g", "/", "DBIRTH", "/", "n1", "/", "d1">>,
         <<NAMESPACE, "/", "STATE", "/", "n1">>,
         <<NAMESPACE, "/", "STATE", "/">>,
         <<NAMESPACE, "/", "STATE">>,
         <<NAMESPACE, "/", "g">>,
         <<NAMESPACE, "/", "g", "/", "BOGUS", "/", "n1">>,
         <<NAMESPACE>>}

InboundMessages ==
  {InboundMsg(s, decodable, {q}) :
     s \in InboundTopics, decodable \in BOOLEAN, q \in {0, 1}}

\* A HostApplication that connects, subscribes and receives messages given by
\* their topic strings.
NextInbound ==
  \/ HostConnectBegin
  \/ HostConnectDone
  \/ HostSubscribeBegin
  \/ HostSubscribeDone
  \/ HostMessageArrivedFrom(InboundMessages)
  \/ HostValidate
  \/ HostLogCallbackReturn
  \/ HostDeliver
  \/ HostMessageCallbackReturn

SpecInbound == InitHostApp /\ [][NextInbound]_vars

\* A caller that converts a Topic to its string and parses the string back,
\* next to an EdgeNode and a HostApplication that are constructed and left
\* alone.
InitTopic ==
  /\ EdgeConstructed(FALSE)
  /\ HostConstructed(DefaultHostConfig)
  /\ \E t \in Topics : CodecHolds(t)

NextTopic == TopicToString \/ TopicParse

SpecTopic == InitTopic /\ [][NextTopic]_vars

\* =================================================================== claims

\* The messages on the wire that the client published with a seq.
CarriesSeq(i) == wire[i].via = "client" /\ wire[i].seq # {}

\* j is the last seq-carrying message before i.
SeqPredecessor(j, i) ==
  /\ j < i
  /\ CarriesSeq(j)
  /\ \A k \in (j + 1)..(i - 1) : ~CarriesSeq(k)

\* C1: the seq values on the wire, in wire order, form 0,1,2,... mod 256 and
\* restart at 0 only at an NBIRTH: every NBIRTH carries seq 0, and every other
\* NDATA / DBIRTH / DDATA / DDEATH carries the successor of the seq of the
\* message published before it in the same session.
C1_WireSeqSeries ==
  \A i \in 1..Len(wire) :
    (CarriesSeq(i) /\ wire[i].type # "NDEATH") =>
      IF wire[i].type = "NBIRTH"
      THEN wire[i].seq = {0}
      ELSE \A j \in 1..Len(wire) :
             (SeqPredecessor(j, i) /\ wire[j].sess = wire[i].sess
                /\ wire[j].type # "NDEATH")
               => wire[i].seq = {(Value(wire[j].seq) + 1) % SEQ_NUMBER_MAX}

\* Thread u has taken its seq under the lock and is about to hand its NDATA to
\* the transport.
AboutToSend(u) == pc[u] = "data_send"

\* C2: with publish_data issued from several threads, the messages reach the
\* wire in the order in which their calls acquired the lock (and so in seq
\* order): a call that took the lock later never puts its message on the wire
\* while an earlier call is still waiting to send.
C2_WireInLockOrder ==
  [][\A t, u \in AppThreads :
       (AboutToSend(t) /\ AboutToSend(u)
          /\ loc[t].msg.call < loc[u].msg.call /\ pc'[u] # pc[u])
         => wire' = wire]_vars

\* C3: every NBIRTH on the wire carries a bdSeq metric equal to the node's
\* bd_seq for the session it is published on.
C3_NBirthCarriesBdSeq ==
  \A i \in 1..Len(wire) :
    wire[i].type = "NBIRTH" => wire[i].bdSeq = {wire[i].bd}

\* C4: in every session the bdSeq of the NDEATH that ends it (the Last Will
\* stored at connect, or the NDEATH sent by publish_death) equals the bdSeq of
\* every NBIRTH published in that session.
C4_DeathMatchesBirth ==
  \A i \in 1..Len(wire) :
    wire[i].type = "NBIRTH" =>
      /\ wire[i].bdSeq = wire[i].will
      /\ \A j \in 1..Len(wire) :
           (wire[j].type = "NDEATH" /\ wire[j].sess = wire[i].sess)
             => wire[j].bdSeq = wire[i].bdSeq

\* C5: a DDATA for a device reaches the wire only if, in the same session, a
\* DBIRTH for that device was published before it with no DDEATH in between.
C5_DDataNeedsDBirth ==
  \A i \in 1..Len(wire) :
    wire[i].type = "DDATA" =>
      \E j \in 1..(i - 1) :
        /\ wire[j].type = "DBIRTH"
        /\ wire[j].dev = wire[i].dev
        /\ wire[j].sess = wire[i].sess
        /\ \A k \in (j + 1)..(i - 1) :
             ~(wire[k].type = "DDEATH" /\ wire[k].dev = wire[i].dev)

\* C6: no NBIRTH and no DBIRTH reaches the wire from a call that began, and
\* sent, while the configured primary host was offline.
C6_NoBirthWhileOffline ==
  \A i \in 1..Len(wire) :
    wire[i].type \in {"NBIRTH", "DBIRTH"} => ~wire[i].offline

\* C7: no user callback (message, command or log callback) runs while the
\* thread that invoked it holds the mutex of the owning object.
C7_NoCallbackUnderLock ==
  /\ cb = "command_callback" => mutex_ # CbThread
  /\ host_cb \in {"log_callback", "message_callback"} => host_mutex_ # CbThread

\* C8: no operation holds the object's mutex while it is inside a transport
\* call (connect, disconnect, subscribe, publish) or waits for its answer.
C8_NoLockAcrossTransport ==
  /\ \A t \in AppThreads :
       pc[t] \in {"connect_mqtt", "connect_ncmd", "connect_state", "disc_wait",
                  "birth_send", "data_send", "ddata_send", "death_send",
                  "rebirth_pub", "dbirth_sub", "dbirth_send", "ddeath_send"}
         => mutex_ # t
  /\ host_pc \in {"connect_wait", "disconnect_wait", "state_publish_wait",
                  "command_send", "subscribe_call"}
       => host_mutex_ # HostThread

\* The validator is handling host_in in this step, with validation enabled.
ValidatingStep ==
  host_cb = "validate" /\ host_cb' # "validate" /\ host_config_.validate_sequence

WarnLogged == \E l \in host_log : l.level = "WARN"

SeqChecked == {"NDATA", "DBIRTH", "DDATA"}

\* The expected-seq rule: NBIRTH seq must be 0; NDATA, DBIRTH and DDATA seq
\* must be (last_seq + 1) mod 256.
BreaksSeqRule(state, m) ==
  /\ m.seq # {}
  /\ \/ m.type = "NBIRTH" /\ m.seq # {0}
     \/ m.type \in SeqChecked /\ m.seq # {(state.last_seq + 1) % SEQ_NUMBER_MAX}

\* The other conditions under which validate_message logs a WARN.
BreaksBirthRule(state, m) ==
  \/ m.type = "NBIRTH" /\ m.bdSeq = {}
  \/ m.type = "NDEATH" /\ state.birth_received
       /\ m.bdSeq # {state.bd_seq} /\ ~(m.bdSeq = {} /\ state.bd_seq = 0)
  \/ m.type \in SeqChecked /\ ~state.birth_received
  \/ m.type = "DDATA" /\ \A d \in state.devices[m.dev] : ~d.birth_received
  \/ m.type = "DDEATH" /\ state.devices[m.dev] = {}

\* C9 as stated: with validate_sequence enabled, a WARN is emitted for a
\* message if and only if the message breaks the expected-seq rule.
C9_WarnIffSeqRuleBroken ==
  [][ValidatingStep =>
       (WarnLogged' <=> BreaksSeqRule(NodeEntry(host_in.node), host_in))]_vars

\* C9 amended: with validate_sequence enabled, a WARN is emitted for a message
\* if and only if the message carries a seq that breaks the expected-seq rule,
\* or is an NBIRTH without bdSeq, an NDEATH whose bdSeq differs from the
\* recorded NBIRTH's, an NDATA / DBIRTH / DDATA before the node's NBIRTH, a
\* DDATA before the device's DBIRTH, or a DDEATH for an unknown device.
C9_WarnIffRuleBroken ==
  [][ValidatingStep =>
       (WarnLogged' <=>
          \/ BreaksSeqRule(NodeEntry(host_in.node), host_in)
          \/ BreaksBirthRule(NodeEntry(host_in.node), host_in))]_vars

\* The validator has warned about a gap in the NDATA seq of a node whose
\* NBIRTH it had received.
C9_GapWarned ==
  /\ host_cb = "log_callback"
  /\ host_in.type = "NDATA"
  /\ host_in.seq = {255}
  /\ LogCall("WARN", TRUE) \in host_log
  /\ NodeEntry(host_in.node).birth_received
  /\ NodeEntry(host_in.node).last_seq = 255

\* C10: when rebirth() has returned success, bd_seq is exactly one greater
\* than when the call began and seq is 0.
C10_RebirthAdvancesBdSeq ==
  \A t \in AppThreads :
    (pc[t] = "idle" /\ ret[t].op = "rebirth" /\ ret[t].res = "ok")
      => bd_seq_num_ = ret[t].bd0 + 1 /\ seq_num_ = 0

\* rebirth() has returned success after NDATA had advanced seq.
C10_RebirthReturned ==
  /\ pc["T1"] = "idle"
  /\ ret["T1"].op = "rebirth"
  /\ ret["T1"].res = "ok"
  /\ \E i \in 1..Len(wire) : wire[i].type = "NDATA"
  /\ bd_seq_num_ = 2

\* C11: once disconnect() has returned success, an NDEATH carrying the bd_seq
\* of the session it closed is on the wire, or the broker still holds the Last
\* Will of that session and can deliver it.
C11_DisconnectDeliversDeath ==
  \A t \in AppThreads :
    (pc[t] = "idle" /\ ret[t].op = "disconnect" /\ ret[t].res = "ok") =>
      \/ \E i \in 1..Len(wire) :
           /\ wire[i].type = "NDEATH"
           /\ wire[i].sess = client_
           /\ wire[i].bdSeq = {bd_seq_num_}
      \/ link = client_ /\ will = {bd_seq_num_}

\* Thread t enters publish_birth or publish_device_birth in this step.
BirthCallBegins(t) ==
  /\ pc[t] = "idle"
  /\ ops' = ops + 1
  /\ \/ pc'[t] \in {"birth_send", "dbirth_sub"}
     \/ /\ pc'[t] = "idle"
        /\ ret'[t].op \in {"publish_birth", "publish_device_birth"}

C13_BirthWaitsForState ==
  [][\A t \in AppThreads :
       (pc[t] = "idle" /\ pc'[t] = "birth_send" /\ config_primary
          /\ link = client_ /\ "STATE" \in subs)
         => state_seen.online_on = client_]_vars

\* The node's state before and after the message in hand.
NodeBefore == NodeEntry(host_in.node)
NodeAfter == NodeEntry(host_in.node)'

\* C14: an NBIRTH whose seq is not 0, or which has no bdSeq metric, is warned
\* about and still updates the node state: online, birth_received, last_seq 0.
C14_BadNBirthStillUpdates ==
  [][(ValidatingStep /\ host_in.type = "NBIRTH"
        /\ (host_in.seq \notin {{}, {0}} \/ host_in.bdSeq = {}))
       => /\ WarnLogged'
          /\ NodeAfter.is_online
          /\ NodeAfter.birth_received
          /\ NodeAfter.last_seq = 0]_vars

\* C15: an NDATA for a born node whose seq is not (last_seq + 1) mod 256 draws
\* exactly one log call, a WARN, and its seq becomes last_seq; an NDATA whose
\* seq is (last_seq + 1) mod 256 draws none and advances last_seq.
C15_GapWarnedOnceAndAdopted ==
  [][(ValidatingStep /\ host_in.type = "NDATA" /\ NodeBefore.birth_received
        /\ host_in.seq # {})
       => /\ NodeAfter.last_seq = Value(host_in.seq)
          /\ IF Value(host_in.seq) = (NodeBefore.last_seq + 1) % SEQ_NUMBER_MAX
             THEN host_log' = {}
             ELSE Cardinality(host_log') = 1 /\ WarnLogged']_vars

\* After a gap had moved the baseline to 255, the NDATA with seq 0 has been
\* validated without any log call and is on its way to the message callback.
C15_ConsecutiveAfterGap ==
  /\ host_config_.validate_sequence
  /\ host_cb = "deliver"
  /\ host_in.type = "NDATA"
  /\ host_in.seq = {0}
  /\ host_log = {}
  /\ NodeBefore.birth_received
  /\ NodeBefore.last_seq = 0

\* C16: with a message callback set, the handling of a message whose topic and
\* payload parsed enters the message callback once: it ends only by that
\* callback returning, and the callback is entered only from the end of the
\* validation stage, never again after it returned.
C16_DeliveredOnce ==
  [][/\ (host_in.kind = "sparkplug" /\ host_config_.message_callback
           /\ host_cb # "idle" /\ host_cb' = "idle")
        => host_cb = "message_callback"
     /\ (host_in.kind = "sparkplug" /\ host_cb # "message_callback"
           /\ host_cb' = "message_callback")
        => host_cb = "deliver"
     /\ (host_in.kind = "sparkplug" /\ host_cb = "message_callback"
           /\ host_cb' # host_cb)
        => host_cb' = "idle" /\ host_in' = NoHostMsg]_vars

\* The message callback is running for a message the validator warned about.
C16_DeliveredDespiteWarn ==
  /\ host_cb = "message_callback"
  /\ host_in.kind = "sparkplug"
  /\ host_in.type = "NDATA"
  /\ LogCall("WARN", TRUE) \in host_log

\* C17 as stated: an NDEATH marks the node offline, and is warned about
\* whenever the bdSeq in its payload is not the bd_seq stored for the node.
C17_NDeathOfflineAndWarned ==
  [][(ValidatingStep /\ host_in.type = "NDEATH")
       => /\ ~NodeAfter.is_online
          /\ (host_in.bdSeq # {} /\ host_in.bdSeq # {NodeBefore.bd_seq})
               => WarnLogged']_vars

\* C17 amended: with validate_sequence enabled an NDEATH marks the node offline,
\* and is warned about whenever the node's NBIRTH has been accepted and the
\* bdSeq in the payload (0 if it has none) is not the bd_seq stored from it.
C17_NDeathOfflineWarnedIfBorn ==
  [][(ValidatingStep /\ host_in.type = "NDEATH")
       => /\ ~NodeAfter.is_online
          /\ (NodeBefore.birth_received
                /\ (IF host_in.bdSeq = {} THEN {0} ELSE host_in.bdSeq)
                     # {NodeBefore.bd_seq})
               => WarnLogged']_vars

\* An NDEATH with bdSeq 1 for a node born with bdSeq 0 has been validated: the
\* node is offline and the mismatch was warned about.
C17_MismatchWarned ==
  /\ host_config_.validate_sequence
  /\ host_cb = "deliver"
  /\ host_in.type = "NDEATH"
  /\ host_in.bdSeq = {1}
  /\ NodeBefore.birth_received
  /\ NodeBefore.bd_seq = 0
  /\ ~NodeBefore.is_online
  /\ LogCall("WARN", TRUE) \in host_log

\* The device's state, a set with at most one element, before and after.
DeviceBefore == NodeBefore.devices[host_in.dev]
DeviceAfter == NodeAfter.devices[host_in.dev]

\* The message in hand needs a birth that has not been received: the node's
\* NBIRTH for NDATA, DBIRTH and DDATA, and the device's DBIRTH for DDATA.
BirthMissing ==
  \/ host_in.type \in {"NDATA", "DBIRTH", "DDATA"} /\ ~NodeBefore.birth_received
  \/ host_in.type = "DDATA" /\ \A d \in DeviceBefore : ~d.birth_received

\* C18: birth_received is set for a node only by its NBIRTH and for a device
\* only by its DBIRTH; an NDATA, DBIRTH or DDATA whose birth is missing is
\* warned about and changes neither last_seq nor the device state.
C18_DataNeedsBirth ==
  [][/\ \A n \in Nodes :
          (~NodeEntry(n).birth_received /\ NodeEntry(n)'.birth_received)
            => ValidatingStep /\ host_in.type = "NBIRTH" /\ host_in.node = n
     /\ \A n \in Nodes, d \in Devices :
          ((\A x \in NodeEntry(n).devices[d] : ~x.birth_received)
             /\ (\E x \in NodeEntry(n)'.devices[d] : x.birth_received))
            => /\ ValidatingStep
               /\ host_in.type = "DBIRTH"
               /\ host_in.node = n
               /\ host_in.dev = d
     /\ (ValidatingStep /\ BirthMissing)
          => /\ WarnLogged'
             /\ NodeAfter.last_seq = NodeBefore.last_seq
             /\ NodeAfter.devices = NodeBefore.devices]_vars

\* A DDATA for a device without DBIRTH, on a born node, has been warned about.
C18_DDataRefused ==
  /\ host_config_.validate_sequence
  /\ host_cb = "deliver"
  /\ host_in.type = "DDATA"
  /\ host_in.seq = {1}
  /\ LogCall("WARN", TRUE) \in host_log
  /\ NodeBefore.birth_received
  /\ NodeBefore.last_seq = 0
  /\ DeviceBefore = {}

\* Thread t enters publish_device_birth in this step, on an EdgeNode that is
\* connected and has put no NBIRTH on the wire.
DBirthCallBeforeNBirth(t) ==
  /\ pc[t] = "idle"
  /\ ops' = ops + 1
  /\ \/ pc'[t] = "dbirth_sub"
     \/ pc'[t] = "idle" /\ ret'[t].op = "publish_device_birth"
  /\ is_connected_
  /\ \A i \in 1..Len(wire) : wire[i].type # "NBIRTH"

\* The connection that the last connect() opened is up with the subscriptions
\* connect() makes.
SessionOpen ==
  /\ link = client_
  /\ "NCMD" \in subs
  /\ config_primary => "STATE" \in subs

\* The call is refused with that error and changes nothing.
RefusedForNBirth(t) ==
  /\ pc'[t] = "idle"
  /\ ret'[t].res = "Must publish NBIRTH before DBIRTH"
  /\ wire' = wire
  /\ subs' = subs
  /\ seq_num_' = seq_num_
  /\ device_states_' = device_states_

\* C19 as stated: publish_device_birth on a connected EdgeNode that has not
\* published an NBIRTH returns "Must publish NBIRTH before DBIRTH", subscribes
\* to nothing, publishes nothing and leaves seq and the device map unchanged.
C19_DBirthNeedsNBirth ==
  [][\A t \in AppThreads :
       (DBirthCallBeforeNBirth(t) /\ SessionOpen) => RefusedForNBirth(t)]_vars

\* C19 amended: the same, for an EdgeNode that has no primary host configured
\* or whose primary host counts as online.
C19_DBirthNeedsNBirthHostOnline ==
  [][\A t \in AppThreads :
       (DBirthCallBeforeNBirth(t) /\ primary_host_online_)
         => RefusedForNBirth(t)]_vars

\* publish_device_birth was refused for want of an NBIRTH on a live connection
\* on which an NDATA had already advanced seq.
C19_DBirthRefused ==
  /\ pc["T1"] = "idle"
  /\ ret["T1"].op = "publish_device_birth"
  /\ ret["T1"].res = "Must publish NBIRTH before DBIRTH"
  /\ is_connected_
  /\ link = client_
  /\ seq_num_ = 1
  /\ Len(wire) = 1
  /\ wire[1].type = "NDATA"

\* Thread t takes its seq in publish_data or publish_device_data in this step.
DataCallTakesSeq(t) ==
  pc[t] = "idle" /\ pc'[t] \in {"data_send", "ddata_send"}

\* Thread t's NDATA or DDATA goes onto the wire in this step.
DataCallSends(t) ==
  /\ pc[t] \in {"data_send", "ddata_send"}
  /\ pc'[t] = "idle"
  /\ Len(wire') = Len(wire) + 1

ConnectCallOnOpenSession(t) ==
  /\ pc[t] = "idle"
  /\ pc'[t] = "connect_mqtt"
  /\ is_connected_
  /\ client_ # 0
  /\ SessionOpen

\* C21: connect() on an already connected EdgeNode leaves the session as it
\* was: is_connected, bd_seq, seq, the client handle and the Last Will the
\* broker holds for the connection are unchanged.
C21_ConnectIdempotent ==
  [][\A t \in AppThreads :
       ConnectCallOnOpenSession(t)
         => /\ is_connected_' = is_connected_
            /\ bd_seq_num_' = bd_seq_num_
            /\ seq_num_' = seq_num_
            /\ client_' = client_
            /\ link' = link
            /\ will' = will]_vars

\* connect(), called by thread t, returns an error in this step.
ConnectReturnsError(t) ==
  /\ pc[t] # "idle" \/ ops' = ops + 1
  /\ OpOf(t, "connect") = "connect"
  /\ pc'[t] = "idle"
  /\ ret'[t].op = "connect"
  /\ ret'[t].res # "ok"

\* C22: when connect() returns an error the EdgeNode is Disconnected:
\* is_connected is false.
C22_FailedConnectDisconnected ==
  [][\A t \in AppThreads : ConnectReturnsError(t) => ~is_connected_']_vars

\* C23: when the transport has not acknowledged a disconnect() within the
\* deadline, disconnect() returns an error.
C23_DisconnectTimeoutIsError ==
  [][\A t \in AppThreads :
       (pc[t] = "disc_timeout" /\ loc[t].op = "disconnect" /\ pc'[t] = "idle")
         => ret'[t].res # "ok"]_vars

\* Thread t enters one of the publish operations or rebirth() in this step.
PublishCallBegins(t) ==
  /\ pc[t] = "idle"
  /\ ops' = ops + 1
  /\ IF pc'[t] = "idle"
     THEN ret'[t].op \notin {"none", "connect", "disconnect"}
     ELSE pc'[t] \notin {"connect_mqtt", "disc_wait"}

\* C24: while is_connected is false (never connected, after disconnect, after
\* on_connection_lost), every publish_* call and rebirth() returns an error at
\* once, puts nothing on the wire and leaves seq, bd_seq and the device states
\* unchanged.
C24_OfflineCallsRefused ==
  [][\A t \in AppThreads :
       (PublishCallBegins(t) /\ ~is_connected_)
         => /\ pc'[t] = "idle"
            /\ ret'[t].res # "ok"
            /\ wire' = wire
            /\ seq_num_' = seq_num_
            /\ bd_seq_num_' = bd_seq_num_
            /\ device_states_' = device_states_]_vars

\* After an NBIRTH and an NDATA the connection was lost and the callback ran;
\* rebirth() was then refused, with seq still 1 and only the Last Will added
\* to the wire.
C24_RebirthRefusedAfterLoss ==
  /\ ~is_connected_
  /\ client_ = 1
  /\ link = 0
  /\ pc["T1"] = "idle"
  /\ ret["T1"].op = "rebirth"
  /\ ret["T1"].res = "Not connected"
  /\ last_birth_payload_ # {}
  /\ seq_num_ = 1
  /\ Len(wire) = 3
  /\ wire[3].via = "lwt"

\* The connection-lost callback runs in this step: the pending notification
\* is consumed while no API call moves.
ConnectionLostRuns ==
  lost_pending # 0 /\ lost_pending' = 0 /\ pc' = pc /\ ops' = ops

\* C25: the connection-lost callback sets is_connected to false and changes
\* nothing else: seq, bd_seq, the device states, the cached NBIRTH payload and
\* the prepared NDEATH are retained, and the library makes no reconnect (the
\* client handle stays, no connection comes up, nothing is published).
C25_ConnectionLostOnlyClearsFlag ==
  [][ConnectionLostRuns
       => /\ ~is_connected_'
          /\ UNCHANGED <<seq_num_, bd_seq_num_, device_states_,
                         last_birth_payload_, death_payload_data_,
                         primary_host_online_, client_, link, will, subs, wire,
                         mutex_, cb>>]_vars

\* The connection dropped after NBIRTH and DBIRTH and the callback has run:
\* is_connected is false while seq, the device and the cached NBIRTH remain.
C25_LostWithSessionState ==
  /\ ~is_connected_
  /\ lost_pending = 0
  /\ link = 0
  /\ client_ = 1
  /\ pc["T1"] = "idle"
  /\ ret["T1"].op = "publish_device_birth"
  /\ ret["T1"].res = "ok"
  /\ seq_num_ = 1
  /\ device_states_["d1"].is_online
  /\ last_birth_payload_ # {}
  /\ wire[Len(wire)].via = "lwt"

\* A DBIRTH goes onto the wire in this step.
DBirthPublished ==
  Len(wire') = Len(wire) + 1 /\ wire'[Len(wire')].type = "DBIRTH"

\* C26: publish_device_birth(dev) hands the DBIRTH to the transport only after
\* its subscription to the DCMD topic of dev was acknowledged, and the DBIRTH
\* goes onto the wire of the connection holding that subscription; when the
\* subscription fails or times out the call returns an error, publishes
\* nothing and leaves the device states as they were.
C26_DBirthAfterDcmdSubscription ==
  [][/\ DBirthPublished
          => \E t \in AppThreads :
               /\ pc[t] = "dbirth_send"
               /\ wire'[Len(wire')].dev = loc[t].msg.dev
               /\ link = loc[t].client
               /\ DcmdTopic(loc[t].msg.dev) \in subs
     /\ \A t \in AppThreads :
          /\ (pc[t] # "dbirth_send" /\ pc'[t] = "dbirth_send")
               => /\ pc[t] = "dbirth_sub"
                  /\ link = loc[t].client
                  /\ DcmdTopic(loc[t].msg.dev) \in subs'
          /\ (pc[t] = "dbirth_sub" /\ pc'[t] = "idle")
               => /\ ret'[t].op = "publish_device_birth"
                  /\ ret'[t].res # "ok"
                  /\ wire' = wire
                  /\ subs' = subs
                  /\ device_states_' = device_states_]_vars

\* On a live connection with the NBIRTH published, the DCMD subscription of
\* publish_device_birth failed: the call returned the error, no DBIRTH is on
\* the wire and the device is not online.
C26_DBirthRefusedNoSubscription ==
  /\ pc["T1"] = "idle"
  /\ ret["T1"].op = "publish_device_birth"
  /\ ret["T1"].res = "DCMD subscription failed"
  /\ is_connected_
  /\ link = client_
  /\ DcmdTopic("d1") \notin subs
  /\ Len(wire) = 1
  /\ wire[1].type = "NBIRTH"
  /\ ~device_states_["d1"].is_online

\* An operation takes the next seq in this step.
SeqConsumed ==
  \E t \in AppThreads :
    pc[t] = "idle" /\ pc'[t] \in {"data_send", "ddata_send", "death_send",
                                  "dbirth_sub", "ddeath_send"}

\* The NBIRTH at position j of the wire is followed by 256 NDATA of the same
\* session, all published by calls that the transport accepted.
NBirthThen256NData(j) ==
  /\ j + 256 <= Len(wire)
  /\ wire[j].type = "NBIRTH"
  /\ \A k \in (j + 1)..(j + 256) :
       /\ wire[k].type = "NDATA"
       /\ wire[k].via = "client"
       /\ wire[k].sess = wire[j].sess

\* seq is in 0..255; the 256th NDATA after an NBIRTH, with no publish refused
\* by the transport, carries seq 0, and seq (what get_seq() returns) is 0 when
\* that call has returned.
SeqInRangeAndWrapped ==
  /\ seq_num_ \in 0..255
  /\ \A j \in 1..Len(wire) :
       (NBirthThen256NData(j) /\ fails = 0)
         => /\ wire[j + 256].seq = {0}
            /\ (Len(wire) = j + 256 /\ pc["T1"] = "idle") => seq_num_ = 0

IsId(x) == x # << >> /\ \A i \in 1..Len(x) : x[i] # "/"

\* The Topics of the claim: any of the nine message types, ids for group and
\* node, with or without a device id; for STATE the group_id is empty.
TopicAsClaimed(t) ==
  /\ IsId(t.edge_node_id)
  /\ t.device_id = << >> \/ IsId(t.device_id)
  /\ IF t.message_type = "STATE" THEN t.group_id = << >> ELSE IsId(t.group_id)

\* The Topics that to_string() writes without loss: as above, where a STATE
\* topic has no device_id either and the group_id of the others does not read
\* STATE.
TopicWrittenInFull(t) ==
  /\ TopicAsClaimed(t)
  /\ t.message_type = "STATE" => t.device_id = << >>
  /\ t.message_type # "STATE" => t.group_id # <<"STATE">>

RoundTripped ==
  codec.stage = "parsed" /\ codec.result.ok /\ codec.result.topic = codec.topic

\* C28 as stated: for every Topic t of the nine message types, with or without
\* a device_id, STATE with empty group_id, Topic::parse(t.to_string()) succeeds
\* and returns a Topic equal to t field by field.
C28_RoundTrip ==
  (codec.stage = "parsed" /\ TopicAsClaimed(codec.topic)) => RoundTripped

\* C28 amended: the same for every such Topic in which a STATE topic has no
\* device_id and the group_id of any other topic is not "STATE".
C28_RoundTripWrittenInFull ==
  (codec.stage = "parsed" /\ TopicWrittenInFull(codec.topic)) => RoundTripped

\* A DDATA topic with group, node and device ids has been written and parsed
\* back to itself.
C28_DeviceTopicRoundTripped ==
  /\ RoundTripped
  /\ codec.topic = TopicRecord(<<"a">>, "DDATA", <<"b">>, <<"a">>)
  /\ codec.str = <<NAMESPACE, "/", "a", "/", "DDATA", "/", "b", "/", "a">>

\* C29: no message that arrives changes primary_host_online unless it is a
\* STATE message of the configured primary host: a STATE message of any other
\* host, and any STATE message when no primary_host_id is configured, leaves
\* the flag as it was.
C29_FlagFollowsPrimaryHostOnly ==
  [][(primary_host_online_' # primary_host_online_ /\ pc' = pc)
       => /\ config_primary
          /\ "STATE" \in subs
          /\ state_seen'.from = "primary"]_vars

\* The (alias, name) pairs of the metrics of a birth that carry both.
AliasNamePairs(metrics) ==
  {<<Value(metrics[i].alias), Value(metrics[i].name)>> :
     i \in {j \in DOMAIN metrics :
              metrics[j].alias # {} /\ metrics[j].name # {}}}

\* This step is validate_message's turn on an NBIRTH of node n (d empty) or on
\* a DBIRTH of device d of node n.
BirthHandled(n, d) ==
  /\ host_cb = "validate"
  /\ host_cb' # "validate"
  /\ host_in.node = n
  /\ host_in.dev = d
  /\ host_in.type = (IF d = "" THEN "NBIRTH" ELSE "DBIRTH")

\* C30: get_metric_name returns nothing before any birth; once an NBIRTH of
\* the node (a DBIRTH of the device) has been handled it returns a name for an
\* alias exactly when that birth had a metric with that alias and a name, and
\* the name is one such a metric carried; it keeps that answer until the next
\* NBIRTH of the node (DBIRTH of the device).
C30_AliasResolvedFromLatestBirth ==
  /\ \A n \in Nodes, d \in Devices \cup {""}, alias \in Aliases :
       GetMetricName(node_states_, n, d, alias) = {}
  /\ [][\A n \in Nodes, d \in Devices \cup {""}, alias \in Aliases :
          LET before == GetMetricName(node_states_, n, d, alias)
              after == GetMetricName(node_states_', n, d, alias)
              pairs == AliasNamePairs(host_in.metrics)
          IN IF BirthHandled(n, d)
             THEN /\ after = {} <=> ~(\E name \in MetricNames :
                                        <<alias, name>> \in pairs)
                  /\ after # {} => <<alias, Value(after)>> \in pairs
             ELSE after = before]_vars

\* The message being handled has a topic Topic::parse rejects or a payload
\* that cannot be decoded.
InvalidInbound ==
  /\ host_in.topic # << >>
  /\ \/ ~Topic_parse(host_in.topic).ok
     \/ host_in.kind = "bad_payload"

\* C31: a received message whose topic is not a valid spBv1.0 topic or whose
\* payload cannot be decoded is never validated nor handed to the message
\* callback, changes no node or device state, and the handler returns with
\* the callback thread idle and the connection and the subscription as they
\* were, so that later messages are processed.
C31_InvalidMessageDropped ==
  /\ [](InvalidInbound => host_cb = "log_callback")
  /\ [][InvalidInbound
          => /\ node_states_' = node_states_
             /\ host_cb' # host_cb
                  => /\ host_cb' = "idle"
                     /\ host_link' = host_link
                     /\ host_subscribed' = host_subscribed]_vars

\* C32: while an NCMD, DCMD or STATE message is being handled no step changes
\* node_states_: no entry is created and none is modified.
C32_CommandsLeaveNodeStates ==
  [][host_in.type \in {"NCMD", "DCMD", "STATE"}
       => node_states_' = node_states_]_vars

\* C33: every NDEATH and every DDEATH on the wire was published with the death
\* QoS, every birth and data message with the data QoS.
C33_DeathQosForDeaths ==
  \A i \in DOMAIN wire :
    /\ wire[i].type \in {"NDEATH", "DDEATH"} => wire[i].qos = DeathQos
    /\ wire[i].type \in {"NBIRTH", "DBIRTH", "NDATA", "DDATA"}
         => wire[i].qos = DataQos

\* A message of the wire as the HostApplication receives it for node n1.
AsHostMsg(w) ==
  HostMsg("sparkplug", w.type, "n1", w.dev, w.seq, w.bdSeq)

\* validate_message applied to the messages msgs in order, starting from the
\* entry `state`: TRUE if it logs a WARN for one of them.
RECURSIVE StreamWarned(_, _)
StreamWarned(state, msgs) ==
  IF msgs = << >> THEN FALSE
  ELSE LET v == ValidateMessage(state, AsHostMsg(Head(msgs))) IN
       "WARN" \in v.log \/ StreamWarned(v.state, Tail(msgs))

\* The wire holds the messages of one EdgeNode's successful calls, the first
\* an NBIRTH, the others NBIRTH (rebirth), NDATA, DBIRTH, DDATA or DDEATH, and
\* no call has failed.
StreamOfSuccessfulCalls ==
  /\ wire # << >>
  /\ wire[1].type = "NBIRTH"
  /\ \A i \in DOMAIN wire :
       wire[i].type \in {"NBIRTH", "NDATA", "DBIRTH", "DDATA", "DDEATH"}
  /\ fails = 0

\* C34: a validator with validate_sequence enabled that receives the node's
\* stream in order and without loss logs no WARN.
C34_CleanStreamNoWarn ==
  StreamOfSuccessfulCalls => ~StreamWarned(DefaultNodeState, wire)

\* The call of thread t returns an error in this step, at once or after its
\* transport call.
CallReturnsError(t) ==
  /\ pc[t] # "idle" \/ ops' = ops + 1
  /\ pc'[t] = "idle"
  /\ ret'[t].op \in {"publish_data", "publish_device_birth",
                     "publish_device_data", "publish_device_death",
                     "publish_death"}
  /\ ret'[t].res # "ok"

\* C35: when publish_data, publish_device_birth, publish_device_data,
\* publish_device_death or publish_death returns an error, seq is what it was
\* when the call began.
C35_FailedCallKeepsSeq ==
  [][\A t \in AppThreads :
       CallReturnsError(t)
         => seq_num_' = IF pc[t] = "idle" THEN seq_num_ ELSE loc[t].seq0]_vars

\* C36: every DBIRTH on the wire comes after an NBIRTH that went out in the
\* same connection session.
C36_DBirthAfterNBirthInSession ==
  \A i \in DOMAIN wire :
    wire[i].type = "DBIRTH"
      => \E j \in 1..(i - 1) :
           wire[j].type = "NBIRTH" /\ wire[j].sess = wire[i].sess

\* The i-th message of the wire is a DDEATH that no DBIRTH of its device
\* precedes, or that another DDEATH of the device separates from the last one.
DDeathOfDeadDevice(i) ==
  /\ wire[i].type = "DDEATH"
  /\ ~\E j \in 1..(i - 1) :
        /\ wire[j].type = "DBIRTH"
        /\ wire[j].dev = wire[i].dev
        /\ \A k \in (j + 1)..(i - 1) :
             ~(wire[k].type = "DDEATH" /\ wire[k].dev = wire[i].dev)

\* C37: every DDEATH on the wire follows a DBIRTH of the same device with no
\* other DDEATH of that device in between.
C37_DDeathOnlyForAliveDevice ==
  \A i \in DOMAIN wire : ~DDeathOfDeadDevice(i)

\* C37, amended: every DDEATH on the wire follows a DBIRTH of the same device;
\* publish_device_death is refused only for a device without entry in
\* device_states_, that is, one that never had a successful DBIRTH.
C37_DDeathOnlyForKnownDevice ==
  \A i \in DOMAIN wire :
    wire[i].type = "DDEATH"
      => \E j \in 1..(i - 1) :
           wire[j].type = "DBIRTH" /\ wire[j].dev = wire[i].dev

\* A device was born and publish_device_death succeeded for it twice: the
\* second DDEATH is for a device that was already dead.
C37_DeadDeviceDiedAgain ==
  /\ \E i \in DOMAIN wire : DDeathOfDeadDevice(i)
  /\ ret["T1"].op = "publish_device_death"
  /\ ret["T1"].res = "ok"

\* C38: between calls, on a connected EdgeNode whose connection is up, every
\* device marked online has its DCMD topic among the subscriptions of the
\* current connection.
C38_OnlineDeviceHasDcmdSubscription ==
  (is_connected_ /\ link # 0 /\ link = client_
     /\ \A t \in AppThreads : pc[t] = "idle")
    => \A d \in Devices :
         device_states_[d].is_online => DcmdTopic(d) \in subs

\* C39: in node_states_ a device is marked online only if its node is marked
\* online.
C39_DeviceOnlineOnlyWithNode ==
  \A n \in Nodes :
    node_states_[n] # {}
      => \A d \in Devices :
           LET node_state == Value(node_states_[n]) IN
           (node_state.devices[d] # {}
              /\ Value(node_state.devices[d]).is_online)
             => node_state.is_online

\* C40: while the entry of a node is offline, as an NDEATH leaves it until the
\* next accepted NBIRTH, every NDATA, DBIRTH and DDATA of the node that is
\* validated is logged with a WARN.
C40_DataAfterNDeathWarned ==
  [][(/\ ValidatingStep
      /\ host_in.type \in {"NDATA", "DBIRTH", "DDATA"}
      /\ node_states_[host_in.node] # {}
      /\ ~NodeBefore.is_online)
       => WarnLogged']_vars

====
